---- MODULE Spec2Model ----
(***************************************************************************)
(* App lifecycle orchestrator of src/library/yunohost_app/app.py:          *)
(* app_install, app_upgrade, app_remove, app_change_url, app_setting and   *)
(* app_register_url over the App Record Store (/etc/yunohost/apps), the    *)
(* Permission Directory, the registered hooks and the scratch workdirs.    *)
(*                                                                         *)
(* Strings whose characters matter to the code (instance names, permission *)
(* names, web paths) are sequences of one-character strings.  Every        *)
(* handler is an operator from the state before the call to the set of     *)
(* results the call can end in; the external collaborators (Script Runner, *)
(* System Health Check) contribute one outcome per call they receive.      *)
(***************************************************************************)
EXTENDS Integers, Sequences, FiniteSets, TLC

VARIABLES apps, perms, hooks, workdirs, now, last, pre, installing

vars == <<apps, perms, hooks, workdirs, now, last, pre, installing>>

(***************************************************************************)
(* Bounds of the model.                                                    *)
(***************************************************************************)
MaxInstances == 2
MaxWorkdirs == 2
MaxBatch == 2

(* The last second the clock reaches. *)
MaxClock == 1

(* The longest stored path that is read. *)
MaxPathLen == 4

(* The largest instance number of a generated name, and of a sibling. *)
MaxNumber == 12
MaxSiblings == 4

(* The largest upstream version and packaging revision. *)
MaxVersion == 2

(***************************************************************************)
(* Character strings.                                                      *)
(***************************************************************************)
Digits == <<"0", "1", "2", "3", "4", "5", "6", "7", "8", "9">>

Letters == {"a", "b", "d", "s", "x"}

IsDigit(c) == \E i \in 1..Len(Digits) : Digits[i] = c

IsWordChar(c) == c \in Letters \/ IsDigit(c) \/ c = "_"

RECURSIVE str(_)
str(n) == IF n < 10 THEN <<Digits[n + 1]>>
          ELSE str(n \div 10) \o <<Digits[(n % 10) + 1]>>

RECURSIVE int(_)
int(s) == IF Len(s) = 0 THEN 0
          ELSE 10 * int(SubSeq(s, 1, Len(s) - 1))
               + (CHOOSE i \in 0..9 : Digits[i + 1] = s[Len(s)])

startswith(s, p) == Len(p) <= Len(s) /\ SubSeq(s, 1, Len(p)) = p

endswith(s, p) == Len(p) <= Len(s) /\ SubSeq(s, Len(s) - Len(p) + 1, Len(s)) = p

contains(s, sub) ==
    \E i \in 1..(Len(s) - Len(sub) + 1) : SubSeq(s, i, i + Len(sub) - 1) = sub

(* s.split(c) and c.join(l), on strings without and with the separator. *)
RECURSIVE split(_, _)
split(s, c) ==
    IF \A i \in 1..Len(s) : s[i] # c THEN <<s>>
    ELSE LET i == CHOOSE k \in 1..Len(s) : s[k] = c /\ \A j \in 1..(k - 1) : s[j] # c
         IN <<SubSeq(s, 1, i - 1)>> \o split(SubSeq(s, i + 1, Len(s)), c)

RECURSIVE join(_, _)
join(l, c) == IF Len(l) = 0 THEN <<>>
              ELSE IF Len(l) = 1 THEN l[1]
              ELSE l[1] \o <<c>> \o join(Tail(l), c)

RECURSIVE strip(_, _)
strip(s, c) == IF Len(s) > 0 /\ s[1] = c THEN strip(Tail(s), c)
               ELSE IF Len(s) > 0 /\ s[Len(s)] = c
                    THEN strip(SubSeq(s, 1, Len(s) - 1), c)
                    ELSE s

SEP == <<"_", "_">>

DOT == <<".">>

ROOT == <<"/">>

(***************************************************************************)
(* Dictionaries (Python dict): functions with a finite domain of keys.     *)
(***************************************************************************)
EmptyDict == [k \in {} |-> TRUE]

DictSet(d, key, value) ==
    [k \in DOMAIN d \cup {key} |-> IF k = key THEN value ELSE d[k]]

DictDel(d, key) == [k \in DOMAIN d \ {key} |-> d[k]]

Has(d, key) == key \in DOMAIN d

(***************************************************************************)
(* The packages the Package Fetcher can deliver: manifest, scripts, hooks. *)
(* A version is its upstream part and, when it carries the ~ynh marker,    *)
(* its packaging revision.                                                 *)
(***************************************************************************)
BASE == <<"d">>

WebQuestions == <<[name |-> "domain", type |-> "domain"],
                  [name |-> "path", type |-> "path"]>>

PkgV1 ==
    [manifest |-> [id |-> BASE,
                   version |-> [ynh |-> TRUE, upstream |-> 1, pkg |-> 1],
                   multi_instance |-> "yes",
                   packaging_format |-> 1,
                   requirements |-> {},
                   arguments |-> [install |-> <<>>],
                   remote |-> [revision |-> "r1"]],
     scripts |-> {"install", "remove", "upgrade"},
     install_script |-> [root_path |-> FALSE, webpath_register |-> FALSE],
     hooks |-> TRUE]

PkgV2 == [PkgV1 EXCEPT !.manifest.version.pkg = 2,
                       !.manifest.remote.revision = "r2"]

PkgWeb == [PkgV1 EXCEPT !.manifest.arguments.install = WebQuestions,
                        !.manifest.remote.revision = "rw",
                        !.scripts = {"install", "remove", "upgrade", "change_url"},
                        !.install_script.webpath_register = TRUE]

(* A package that takes a whole domain: it asks for a domain only, and its  *)
(* install script sets path_url="/" and calls ynh_webpath_register.        *)
PkgFull == [PkgV1 EXCEPT !.manifest.arguments.install =
                             <<[name |-> "domain", type |-> "domain"]>>,
                         !.manifest.remote.revision = "rf",
                         !.install_script = [root_path |-> TRUE,
                                             webpath_register |-> TRUE]]

(* A package whose version has no ~ynh marker. *)
PkgOld == [PkgV1 EXCEPT !.manifest.version.ynh = FALSE,
                        !.manifest.remote.revision = "ro"]

PkgSolo == [PkgV1 EXCEPT !.manifest = DictDel(PkgV1.manifest, "multi_instance")]

(* A package that asks for a domain and two paths, and one that asks for  *)
(* a domain alone and whose install script does not set the root path.     *)
PkgTwoPaths ==
    [PkgWeb EXCEPT !.manifest.arguments.install =
                       WebQuestions \o <<[name |-> "path2", type |-> "path"]>>,
                   !.manifest.remote.revision = "rt"]

PkgBare ==
    [PkgV1 EXCEPT !.manifest.arguments.install =
                      <<[name |-> "domain", type |-> "domain"]>>,
                  !.manifest.remote.revision = "rb",
                  !.scripts = {"install", "remove", "upgrade", "change_url"},
                  !.install_script = [root_path |-> FALSE, webpath_register |-> TRUE]]

Packages ==
    [v1 |-> PkgV1,
     twopaths |-> PkgTwoPaths,
     bare |-> PkgBare,
     v2 |-> PkgV2,
     web |-> PkgWeb,
     full |-> PkgFull,
     old |-> PkgOld,
     solo |-> PkgSolo,
     dotted |-> [PkgV1 EXCEPT !.manifest.id = BASE \o DOT \o <<"x">>],
     forked |-> [PkgV1 EXCEPT !.manifest.id = BASE \o SEP \o <<"x">>],
     fmt2 |-> [PkgV1 EXCEPT !.manifest.packaging_format = 2],
     needy |-> [PkgV1 EXCEPT !.manifest.requirements = {"unmet"}]]

Sources == DOMAIN Packages

(* The catalog names the package published for each app id. *)
Catalog == [d |-> "v2"]

(* Domains the platform knows (yunohost.domain._assert_domain_exists). *)
Domains == {<<"d1">>, <<"d2">>}

(* Requirements the installed support packages meet. *)
meets_version_specifier(pkgname) == pkgname \in {"yunohost"}

(***************************************************************************)
(* State of the platform as one record, and results of a call.             *)
(***************************************************************************)
Cur == [apps |-> apps, perms |-> perms, hooks |-> hooks, workdirs |-> workdirs]

Res(s, err, ev, id) == [s |-> s, err |-> err, ev |-> ev, id |-> id, info |-> <<>>]

InstRes(s, err, ev, id, dir) ==
    [s |-> s, err |-> err, ev |-> ev, id |-> id, info |-> [dir |-> dir]]

NOBODY == <<>>

(* What a call did with its collaborators, in order: the scripts it ran and *)
(* how each ended, the health checks it made and what each found.          *)
ScriptEv(name, app, outcome) == <<"script", name, app, outcome>>

SaneEv(when, app, sane) == <<"sane", when, app, IF sane THEN "sane" ELSE "broken">>

(***************************************************************************)
(* App Record Store.                                                       *)
(***************************************************************************)
_is_installed(s, app) == app \in DOMAIN s.apps

_installed_apps(s) == DOMAIN s.apps

_set_app_settings(s, app_id, settings) ==
    [s EXCEPT !.apps = [a \in DOMAIN s.apps |->
        IF a = app_id THEN [s.apps[a] EXCEPT !.settings = settings]
        ELSE s.apps[a]]]

(* "/" + path.strip("/") *)
normalize_path(path) == ROOT \o strip(path, "/")

(* A repair that leaves a path without its leading "/" as it is. *)
path_needs_fix_trailing_only(settings) ==
    /\ (IF Has(settings, "path") THEN settings["path"] ELSE <<"None">>) # ROOT
    /\ endswith(IF Has(settings, "path") THEN settings["path"] ELSE <<>>, ROOT)

(* The legacy repair of _get_app_settings: a stored path other than "/"    *)
(* that ends with "/" or does not start with "/".                          *)
path_needs_fix(settings) ==
    /\ (IF Has(settings, "path") THEN settings["path"] ELSE <<"None">>) # ROOT
    /\ \/ endswith(IF Has(settings, "path") THEN settings["path"] ELSE <<>>, ROOT)
       \/ ~startswith(IF Has(settings, "path") THEN settings["path"] ELSE ROOT, ROOT)

(* Returns the settings read and the store after the read. *)
_get_app_settings(s, app_id) ==
    LET stored == s.apps[app_id].settings
        fixed == IF path_needs_fix(stored)
                 THEN DictSet(stored, "path", normalize_path(stored["path"]))
                 ELSE stored
        s1 == IF path_needs_fix(stored) THEN _set_app_settings(s, app_id, fixed)
              ELSE s
    IN [s |-> s1,
        settings |-> IF Has(fixed, "id") /\ fixed["id"] = app_id THEN fixed
                     ELSE EmptyDict]

(***************************************************************************)
(* Instance identity.                                                      *)
(***************************************************************************)
is_instance_suffix_any_digits(t) ==
    /\ Len(t) >= 3
    /\ SubSeq(t, 1, 2) = SEP
    /\ \A i \in 3..Len(t) : IsDigit(t[i])

\* The separator, a digit 1-9, then digits.
is_instance_suffix(t) ==
    /\ Len(t) >= 3
    /\ SubSeq(t, 1, 2) = SEP
    /\ IsDigit(t[3]) /\ t[3] # "0"
    /\ \A i \in 4..Len(t) : IsDigit(t[i])

\* The instance-name pattern: a non-greedy run of word or hyphen characters,
\* then optionally the separator and a number without leading zero, then
\* the end.  The set holds the positions where the run can end; the
\* non-greedy match takes the first.
re_app_instance_name(name) ==
    {i \in 1..Len(name) :
        /\ \A j \in 1..i : IsWordChar(name[j]) \/ name[j] = "-"
        /\ i = Len(name) \/ is_instance_suffix(SubSeq(name, i + 1, Len(name)))}

_parse_app_instance_name(app_instance_name) ==
    LET ends == re_app_instance_name(app_instance_name)
        i == CHOOSE e \in ends : \A f \in ends : e <= f
    IN IF i = Len(app_instance_name) THEN <<app_instance_name, 1>>
       ELSE <<SubSeq(app_instance_name, 1, i),
              int(SubSeq(app_instance_name, i + 3, Len(app_instance_name)))>>

(* Lines 782-789: the name an install gives to instance number n. *)
instance_name_for(app_id, instance_number) ==
    IF instance_number > 1 THEN app_id \o SEP \o str(instance_number) ELSE app_id

_next_instance_number_for_app_after_highest(s, app) ==
    LET sibling_ids == {_parse_app_instance_name(a)[2] :
                           a \in {b \in _installed_apps(s) :
                                     b = app \/ startswith(b, app \o SEP)}}
    IN IF sibling_ids = {} THEN 1
       ELSE (CHOOSE m \in sibling_ids : \A k \in sibling_ids : k <= m) + 1

_next_instance_number_for_app_counts(s, app) ==
    Cardinality({a \in _installed_apps(s) : a = app \/ startswith(a, app \o SEP)}) + 1

_next_instance_number_for_app(s, app) ==
    LET sibling_app_ids == {a \in _installed_apps(s) :
                              a = app \/ startswith(a, app \o SEP)}
        sibling_ids == {_parse_app_instance_name(a)[2] : a \in sibling_app_ids}
    IN CHOOSE i \in 1..(Cardinality(sibling_ids) + 1) :
          /\ i \notin sibling_ids
          /\ \A j \in 1..(i - 1) : j \in sibling_ids

(***************************************************************************)
(* Workdir Manager.                                                        *)
(***************************************************************************)
WORKDIR_TTL == 12 * 3600

(* A sweep that also deletes a directory exactly twelve hours old. *)
_make_tmp_workdir_for_app_sweeps_at_threshold(s) ==
    LET kept == {d \in DOMAIN s.workdirs : ~(s.workdirs[d].mtime <= now - WORKDIR_TTL)}
        tmpdir == CHOOSE n \in 1..(Cardinality(kept) + 1) : n \notin kept
    IN [s |-> [s EXCEPT !.workdirs = [d \in kept \cup {tmpdir} |->
                  IF d = tmpdir THEN [mtime |-> now] ELSE s.workdirs[d]]],
        dir |-> tmpdir]

(* Returns the store after the sweep and the allocation, and the new dir. *)
_make_tmp_workdir_for_app(s) ==
    LET kept == {d \in DOMAIN s.workdirs : ~(s.workdirs[d].mtime < now - WORKDIR_TTL)}
        tmpdir == CHOOSE n \in 1..(Cardinality(kept) + 1) : n \notin kept
    IN [s |-> [s EXCEPT !.workdirs = [d \in kept \cup {tmpdir} |->
                  IF d = tmpdir THEN [mtime |-> now] ELSE s.workdirs[d]]],
        dir |-> tmpdir]

rmtree_workdir(s, dir) ==
    [s EXCEPT !.workdirs = [d \in DOMAIN s.workdirs \ {dir} |-> s.workdirs[d]]]

(* Package Fetcher: the manifest and the tree, staged in a new workdir. *)
_extract_app(s, src) ==
    LET w == _make_tmp_workdir_for_app(s)
    IN [s |-> w.s, manifest |-> Packages[src].manifest, dir |-> w.dir]

(***************************************************************************)
(* Permission Directory (yunohost.permission), as this module uses it.     *)
(***************************************************************************)
main_permission(app) == app \o DOT \o <<"main">>

(* The prefix of a url that is a regular expression. *)
RE == <<"re:">>

permission_create(s, name) ==
    [s EXCEPT !.perms = DictSet(s.perms, name,
        [url |-> <<>>, additional_urls |-> <<>>, allowed |-> {"all_users"},
         show_tile |-> FALSE])]

(* The permission that holds the urls of a legacy setting. *)
permission_create_legacy(s, name, allowed, additional_urls) ==
    [s EXCEPT !.perms = DictSet(s.perms, name,
        [url |-> <<>>, additional_urls |-> additional_urls, allowed |-> allowed,
         show_tile |-> FALSE])]

(* permission_url(clear_urls=True) and then permission_url(add_url=...). *)
permission_replace_urls(s, name, new_urls) ==
    [s EXCEPT !.perms = [n \in DOMAIN s.perms |->
        IF n = name THEN [s.perms[n] EXCEPT !.url = <<>>, !.additional_urls = new_urls]
        ELSE s.perms[n]]]

(* user_permission_update(add=...) and (remove=...). *)
user_permission_update(s, name, add, remove) ==
    [s EXCEPT !.perms = [n \in DOMAIN s.perms |->
        IF n = name
        THEN [s.perms[n] EXCEPT !.allowed = (s.perms[n].allowed \cup add) \ remove]
        ELSE s.perms[n]]]

permission_delete(s, name) == [s EXCEPT !.perms = DictDel(s.perms, name)]

permission_url(s, name, url) ==
    [s EXCEPT !.perms = [n \in DOMAIN s.perms |->
        IF n = name THEN [s.perms[n] EXCEPT !.url = url] ELSE s.perms[n]]]

show_tile(s, name) ==
    [s EXCEPT !.perms = [n \in DOMAIN s.perms |->
        IF n = name THEN [s.perms[n] EXCEPT !.show_tile = TRUE] ELSE s.perms[n]]]

(* The permissions of an instance: those named "<instance>.<something>". *)
app_permissions(s, app) == {n \in DOMAIN s.perms : startswith(n, app \o DOT)}

delete_app_permissions(s, app) ==
    [s EXCEPT !.perms = [n \in DOMAIN s.perms \ app_permissions(s, app) |-> s.perms[n]]]

(***************************************************************************)
(* Conflict Resolver.                                                      *)
(***************************************************************************)
normalize_domain(domain) ==
    LET d == IF Len(domain) > 0 /\ domain[1] \in {"http://", "https://"}
             THEN Tail(domain) ELSE domain
    IN IF Len(d) > 0 /\ d[Len(d)] = "/" THEN SubSeq(d, 1, Len(d) - 1) ELSE d

(* Every installed record is read, and repaired by the read. *)
read_all_settings(s) ==
    [s EXCEPT !.apps = [a \in DOMAIN s.apps |-> _get_app_settings(s, a).s.apps[a]]]

(* app_map(raw=True): the registered locations, as entries. *)
app_map(s) ==
    UNION {
      LET app_settings == _get_app_settings(s, app_id).settings
          this_app_perms == {n \in DOMAIN s.perms :
                                /\ startswith(n, app_id \o DOT)
                                /\ \/ s.perms[n].url # <<>>
                                   \/ s.perms[n].additional_urls # <<>>}
          perm_all_urls(n) ==
              (IF s.perms[n].url # <<>> THEN {s.perms[n].url} ELSE {})
              \cup {s.perms[n].additional_urls[i] :
                       i \in DOMAIN s.perms[n].additional_urls}
      IN IF \/ ~Has(app_settings, "domain")
            \/ ~Has(app_settings, "path")
            \/ Has(app_settings, "no_sso")
         THEN {}
         ELSE UNION {
                {[domain |-> app_settings["domain"],
                  path |-> normalize_path(app_settings["path"] \o url),
                  id |-> app_id] :
                    url \in {u \in perm_all_urls(n) : ~startswith(u, RE)}}
                : n \in this_app_perms}
      : app_id \in _installed_apps(s)}

paths_conflict_one_way(path, p) ==
    \/ path = p
    \/ startswith(path, p)

(* The test of lines 2348-2353 on a candidate path and a registered one. *)
paths_conflict(path, p) ==
    \/ path = p
    \/ startswith(path, p)
    \/ startswith(p, path)

_get_conflicting_apps_ignores_nobody(s, domain, path, ignore_app) ==
    IF normalize_domain(domain) \notin Domains
    THEN [s |-> s, err |-> "domain_unknown", conflicts |-> {}]
    ELSE [s |-> read_all_settings(s),
          err |-> "ok",
          conflicts |-> {e \in app_map(s) :
              /\ e.domain = normalize_domain(domain)
              /\ paths_conflict(normalize_path(path), e.path)}]

_get_conflicting_apps(s, domain, path, ignore_app) ==
    IF normalize_domain(domain) \notin Domains
    THEN [s |-> s, err |-> "domain_unknown", conflicts |-> {}]
    ELSE [s |-> read_all_settings(s),
          err |-> "ok",
          conflicts |-> {e \in app_map(s) :
              /\ e.domain = normalize_domain(domain)
              /\ e.id # ignore_app
              /\ paths_conflict(normalize_path(path), e.path)}]

_assert_no_conflicting_apps_takes_over(s, domain, path, ignore_app, full_domain) ==
    LET c == _get_conflicting_apps(s, domain, path, ignore_app)
        ids == {e.id : e \in c.conflicts}
    IN [s |-> [c.s EXCEPT !.perms = [n \in DOMAIN c.s.perms |->
                   IF \E a \in ids : startswith(n, a \o DOT)
                   THEN [c.s.perms[n] EXCEPT !.url = <<>>]
                   ELSE c.s.perms[n]]],
        err |-> IF c.err # "ok" THEN c.err
                ELSE IF c.conflicts = {} THEN "ok"
                ELSE IF full_domain THEN "app_full_domain_unavailable"
                ELSE "app_location_unavailable"]

_assert_no_conflicting_apps(s, domain, path, ignore_app, full_domain) ==
    LET c == _get_conflicting_apps(s, domain, path, ignore_app)
    IN [s |-> c.s,
        err |-> IF c.err # "ok" THEN c.err
                ELSE IF c.conflicts = {} THEN "ok"
                ELSE IF full_domain THEN "app_full_domain_unavailable"
                ELSE "app_location_unavailable"]

_guess_webapp_path_requirement(package) ==
    LET raw_questions == package.manifest.arguments.install
        domain_questions == {i \in DOMAIN raw_questions : raw_questions[i].type = "domain"}
        path_questions == {i \in DOMAIN raw_questions : raw_questions[i].type = "path"}
    IN IF Cardinality(domain_questions) = 0 /\ Cardinality(path_questions) = 0 THEN ""
       ELSE IF Cardinality(domain_questions) = 1 /\ Cardinality(path_questions) = 1
            THEN "domain_and_path"
       ELSE IF /\ Cardinality(domain_questions) = 1
               /\ Cardinality(path_questions) = 0
               /\ package.install_script.root_path
               /\ package.install_script.webpath_register
            THEN "full_domain"
       ELSE "?"

_validate_webpath_requirement_root_only(s, args, path_requirement, ignore_app) ==
    IF path_requirement = "domain_and_path"
    THEN _assert_no_conflicting_apps(s, args["domain"], args["path"], ignore_app, FALSE)
    ELSE IF path_requirement = "full_domain"
    THEN LET c == _get_conflicting_apps(s, args["domain"], ROOT, ignore_app)
         IN [s |-> c.s,
             err |-> IF c.err # "ok" THEN c.err
                     ELSE IF \E e \in c.conflicts : e.path = ROOT
                     THEN "app_full_domain_unavailable"
                     ELSE "ok"]
    ELSE [s |-> s, err |-> "ok"]

(* A validation that looks for conflicts whatever the requirement is. *)
_validate_webpath_requirement_checks_always(s, args, path_requirement, ignore_app) ==
    IF Has(args, "domain")
    THEN _assert_no_conflicting_apps(s, args["domain"],
                                     IF Has(args, "path") THEN args["path"] ELSE ROOT,
                                     ignore_app, path_requirement = "full_domain")
    ELSE [s |-> s, err |-> "ok"]

_validate_webpath_requirement(s, args, path_requirement, ignore_app) ==
    IF path_requirement = "domain_and_path"
    THEN _assert_no_conflicting_apps(s, args["domain"], args["path"], ignore_app, FALSE)
    ELSE IF path_requirement = "full_domain"
    THEN _assert_no_conflicting_apps(s, args["domain"], ROOT, ignore_app, TRUE)
    ELSE [s |-> s, err |-> "ok"]

(***************************************************************************)
(* Settings.                                                               *)
(***************************************************************************)
app_setting_get(s, app, key) ==
    LET r == _get_app_settings(s, app)
    IN [s |-> r.s, found |-> Has(r.settings, key),
        value |-> IF Has(r.settings, key) THEN r.settings[key] ELSE <<>>]

(* A set that writes the one key alone. *)
app_setting_set_alone(s, app, key, value) ==
    LET r == _get_app_settings(s, app)
    IN _set_app_settings(r.s, app, DictSet(EmptyDict, key, value))

app_setting_set(s, app, key, value) ==
    LET r == _get_app_settings(s, app)
    IN _set_app_settings(r.s, app, DictSet(r.settings, key, value))

app_setting_delete(s, app, key) ==
    LET r == _get_app_settings(s, app)
    IN _set_app_settings(r.s, app, DictDel(r.settings, key))

(* A registration that books the location without looking for conflicts. *)
app_register_url_unchecked(s, app, domain, path) ==
    LET installed == _is_installed(s, app)
        r == IF installed THEN _get_app_settings(s, app)
             ELSE [s |-> s, settings |-> EmptyDict]
        s1 == app_setting_set(r.s, app, "domain", normalize_domain(domain))
        s2 == app_setting_set(s1, app, "path", normalize_path(path))
    IN IF installed /\ Has(r.settings, "path") /\ Has(r.settings, "domain")
       THEN [s |-> r.s, err |-> "app_already_installed_cant_change_url"]
       ELSE IF ~installed THEN [s |-> r.s, err |-> "app_not_installed"]
       ELSE [s |-> show_tile(permission_url(s2, main_permission(app), ROOT),
                             main_permission(app)),
             err |-> "ok"]

app_register_url(s, app, domain, path) ==
    LET installed == _is_installed(s, app)
        r == IF installed THEN _get_app_settings(s, app)
             ELSE [s |-> s, settings |-> EmptyDict]
        c == _assert_no_conflicting_apps(r.s, domain, path, NOBODY, FALSE)
        s1 == app_setting_set(c.s, app, "domain", normalize_domain(domain))
        s2 == app_setting_set(s1, app, "path", normalize_path(path))
    IN IF installed /\ Has(r.settings, "path") /\ Has(r.settings, "domain")
       THEN [s |-> r.s, err |-> "app_already_installed_cant_change_url"]
       ELSE IF c.err # "ok" THEN [s |-> c.s, err |-> c.err]
       ELSE IF ~installed THEN [s |-> c.s, err |-> "app_not_installed"]
       ELSE [s |-> show_tile(permission_url(s2, main_permission(app), ROOT),
                             main_permission(app)),
             err |-> "ok"]

(***************************************************************************)
(* Manifest checks.                                                        *)
(***************************************************************************)
is_true(arg) == arg \in {"yes", "true", "on"}

_check_manifest_requirements(manifest) ==
    IF manifest.packaging_format \notin {0, 1} THEN "app_packaging_format_not_supported"
    ELSE IF \E pkgname \in manifest.requirements : ~meets_version_specifier(pkgname)
    THEN "app_requirements_unmeet"
    ELSE "ok"

(***************************************************************************)
(* Script Runner: what a lifecycle script can end in, and what the install *)
(* script may have done to the store through register-url when it ended.   *)
(***************************************************************************)
ScriptOutcomes == {"ok", "failed", "raised"}

UNBOUND == "unbound"

(* raise YunohostError(failure_message_with_debug_instructions): the name  *)
(* is bound only when the runner returned or the post check failed.        *)
raise_failure(msg) == IF msg = UNBOUND THEN "UnboundLocalError" ELSE msg

(* What the install script of a web app may do through the helpers it is  *)
(* given: create a permission of its own and register its location.       *)
install_script_effect(s, app, args, registers) ==
    IF registers /\ Has(args, "domain")
    THEN app_register_url(permission_create(s, app \o DOT \o <<"a">>),
                          app, args["domain"],
                          IF Has(args, "path") THEN args["path"] ELSE ROOT).s
    ELSE s

(***************************************************************************)
(* app_install.                                                            *)
(***************************************************************************)
(* A record directory that takes the new settings and files and keeps    *)
(* what a directory of that name already holds.                            *)
make_app_setting_path_keeps_existing(s, app_instance_name, src, manifest) ==
    IF app_instance_name \in DOMAIN s.apps THEN s
    ELSE [s EXCEPT !.apps = DictSet(s.apps, app_instance_name,
             [settings |-> [id |-> app_instance_name,
                            install_time |-> now,
                            current_revision |-> manifest.remote.revision],
              files |-> src])]

(* Lines 822-843: the record directory, deleted first if it exists, the   *)
(* initial settings and the package files.                                 *)
make_app_setting_path(s, app_instance_name, src, manifest) ==
    LET s1 == IF app_instance_name \in DOMAIN s.apps
              THEN [s EXCEPT !.apps = DictDel(s.apps, app_instance_name)]
              ELSE s
    IN [s1 EXCEPT !.apps = DictSet(s1.apps, app_instance_name,
           [settings |-> [id |-> app_instance_name,
                          install_time |-> now,
                          current_revision |-> manifest.remote.revision],
            files |-> src])]

(* Lines 822-855: the record, the package files, the main permission. *)
create_app_record(s, app_instance_name, src, manifest) ==
    permission_create(make_app_setting_path(s, app_instance_name, src, manifest),
                      main_permission(app_instance_name))

rmtree_app_setting_path(s, app) == [s EXCEPT !.apps = DictDel(s.apps, app)]

hook_remove(s, app) == [s EXCEPT !.hooks = DictDel(s.hooks, app)]

hook_add(s, app, src) ==
    IF Packages[src].hooks THEN [s EXCEPT !.hooks = DictSet(s.hooks, app, src)] ELSE s

install_rollback_keeps_permissions(s, app_instance_name, dir, msg, ev) ==
    UNION {
      LET ev1 == Append(ev, ScriptEv("remove", app_instance_name, remove))
          s2 == rmtree_workdir(rmtree_app_setting_path(s, app_instance_name), dir)
      IN IF remove = "ok"
         THEN {InstRes(s2, raise_failure(msg),
                       Append(ev1, SaneEv("post", app_instance_name, sane)),
                       app_instance_name, dir) : sane \in BOOLEAN}
         ELSE {InstRes(s2, raise_failure(msg), ev1, app_instance_name, dir)}
      : remove \in ScriptOutcomes}

install_rollback_without_check(s, app_instance_name, dir, msg, ev) ==
    {InstRes(rmtree_workdir(rmtree_app_setting_path(
                 delete_app_permissions(s, app_instance_name), app_instance_name), dir),
             raise_failure(msg),
             Append(ev, ScriptEv("remove", app_instance_name, remove)),
             app_instance_name, dir) : remove \in ScriptOutcomes}

(* Lines 920-976: the removal after a failed install. *)
install_rollback(s, app_instance_name, dir, msg, ev) ==
    UNION {
      LET ev1 == Append(ev, ScriptEv("remove", app_instance_name, remove))
          s1 == delete_app_permissions(s, app_instance_name)
          s2 == rmtree_workdir(rmtree_app_setting_path(s1, app_instance_name), dir)
      IN IF remove = "ok"
         THEN {InstRes(s2, raise_failure(msg),
                       Append(ev1, SaneEv("post", app_instance_name, sane)),
                       app_instance_name, dir) : sane \in BOOLEAN}
         ELSE {InstRes(s2, raise_failure(msg), ev1, app_instance_name, dir)}
      : remove \in ScriptOutcomes}

install_failure_always_removes(s, app_instance_name, dir, msg, ev, no_remove_on_failure) ==
    install_rollback(s, app_instance_name, dir, msg, ev)

(* Lines 907-918: what a failed install does with the instance. *)
install_failure(s, app_instance_name, dir, msg, ev, no_remove_on_failure) ==
    IF no_remove_on_failure
    THEN {InstRes(s, "install_failed_not_cleaned_up", ev, app_instance_name, dir)}
    ELSE install_rollback(s, app_instance_name, dir, msg, ev)

(* Lines 978-992: hooks and the release of the workdir. *)
install_success(s, app_instance_name, src, dir, ev) ==
    InstRes(rmtree_workdir(hook_add(hook_remove(s, app_instance_name),
                                    app_instance_name, src), dir),
            "ok", ev, app_instance_name, dir)

install_run_trusts_script(s, app_instance_name, src, args, dir, ev, no_remove_on_failure) ==
    UNION {
      LET s1 == install_script_effect(s, app_instance_name, args, registers)
          ev1 == Append(ev, ScriptEv("install", app_instance_name, script))
      IN IF script = "ok"
         THEN {install_success(s1, app_instance_name, src, dir,
                               Append(ev1, SaneEv("post", app_instance_name, sane)))
               : sane \in BOOLEAN}
         ELSE install_failure(s1, app_instance_name, dir,
                              IF script = "failed" THEN "app_install_script_failed"
                              ELSE UNBOUND,
                              ev1, no_remove_on_failure)
      : <<script, registers>> \in ScriptOutcomes \X BOOLEAN}

(* Lines 870-905: the install script, then the post check if it succeeded. *)
install_run(s, app_instance_name, src, args, dir, ev, no_remove_on_failure) ==
    UNION {
      LET s1 == install_script_effect(s, app_instance_name, args, registers)
          ev1 == Append(ev, ScriptEv("install", app_instance_name, script))
      IN IF script = "ok"
         THEN {install_success(s1, app_instance_name, src, dir,
                               Append(ev1, SaneEv("post", app_instance_name, TRUE)))}
              \cup install_failure(s1, app_instance_name, dir, "app_action_broke_system",
                                   Append(ev1, SaneEv("post", app_instance_name, FALSE)),
                                   no_remove_on_failure)
         ELSE install_failure(s1, app_instance_name, dir,
                              IF script = "failed" THEN "app_install_script_failed"
                              ELSE UNBOUND,
                              ev1, no_remove_on_failure)
      : <<script, registers>> \in ScriptOutcomes \X BOOLEAN}

app_install_records_first(s, src, answers, no_remove_on_failure) ==
    IF src \notin Sources THEN {Res(s, "app_unknown", <<>>, NOBODY)}
    ELSE
    LET x == _extract_app(s, src)
        manifest == x.manifest
        app_id == manifest.id
        instance_number == _next_instance_number_for_app(x.s, app_id)
        app_instance_name == instance_name_for(app_id, instance_number)
        questions == manifest.arguments.install
        names == {questions[i].name : i \in DOMAIN questions}
        args == [k \in names \cap DOMAIN answers |-> answers[k]]
        v == _validate_webpath_requirement(
                 create_app_record(x.s, app_instance_name, src, manifest), args,
                 _guess_webapp_path_requirement(Packages[src]), NOBODY)
    IN IF contains(app_id, SEP) \/ contains(app_id, DOT)
       THEN {Res(x.s, "app_id_invalid", <<>>, NOBODY)}
       ELSE IF _check_manifest_requirements(manifest) # "ok"
       THEN {Res(x.s, _check_manifest_requirements(manifest), <<>>, NOBODY)}
       ELSE {Res(x.s, "app_action_cannot_be_ran_because_required_services_down",
                 <<SaneEv("pre", app_id, FALSE)>>, NOBODY)}
            \cup
            (IF /\ instance_number > 1
                /\ (~Has(manifest, "multi_instance") \/ ~is_true(manifest["multi_instance"]))
             THEN {Res(x.s, "app_already_installed", <<SaneEv("pre", app_id, TRUE)>>,
                       NOBODY)}
             ELSE IF v.err # "ok"
             THEN {Res(v.s, v.err, <<SaneEv("pre", app_id, TRUE)>>, NOBODY)}
             ELSE install_run(v.s, app_instance_name, src, args, x.dir,
                              <<SaneEv("pre", app_id, TRUE)>>, no_remove_on_failure))

app_install(s, src, answers, no_remove_on_failure) ==
    IF src \notin Sources THEN {Res(s, "app_unknown", <<>>, NOBODY)}
    ELSE
    LET x == _extract_app(s, src)
        manifest == x.manifest
        app_id == manifest.id
        instance_number == _next_instance_number_for_app(x.s, app_id)
        app_instance_name == instance_name_for(app_id, instance_number)
        questions == manifest.arguments.install
        names == {questions[i].name : i \in DOMAIN questions}
        args == [k \in names \cap DOMAIN answers |-> answers[k]]
        v == _validate_webpath_requirement(
                 x.s, args, _guess_webapp_path_requirement(Packages[src]), NOBODY)
    IN IF contains(app_id, SEP) \/ contains(app_id, DOT)
       THEN {Res(x.s, "app_id_invalid", <<>>, NOBODY)}
       ELSE IF _check_manifest_requirements(manifest) # "ok"
       THEN {Res(x.s, _check_manifest_requirements(manifest), <<>>, NOBODY)}
       ELSE {Res(x.s, "app_action_cannot_be_ran_because_required_services_down",
                 <<SaneEv("pre", app_id, FALSE)>>, NOBODY)}
            \cup
            (IF /\ instance_number > 1
                /\ (~Has(manifest, "multi_instance") \/ ~is_true(manifest["multi_instance"]))
             THEN {Res(x.s, "app_already_installed", <<SaneEv("pre", app_id, TRUE)>>,
                       NOBODY)}
             ELSE IF v.err # "ok"
             THEN {Res(v.s, v.err, <<SaneEv("pre", app_id, TRUE)>>, NOBODY)}
             ELSE install_run(create_app_record(v.s, app_instance_name, src, manifest),
                              app_instance_name, src, args, x.dir,
                              <<SaneEv("pre", app_id, TRUE)>>, no_remove_on_failure))

(***************************************************************************)
(* Version Classifier.                                                     *)
(***************************************************************************)
version_lt(a, b) ==
    a.upstream < b.upstream \/ (a.upstream = b.upstream /\ a.pkg < b.pkg)

version_ge(a, b) == ~version_lt(a, b)

version_gt(a, b) == version_lt(b, a)

CatalogEntry(app_id) ==
    IF app_id = BASE
    THEN [found |-> TRUE, level |-> [is_int |-> TRUE, n |-> 8], state |-> "working",
          src |-> Catalog.d,
          version |-> Packages[Catalog.d].manifest.version,
          lastUpdate |-> 1, git |-> TRUE]
    ELSE [found |-> FALSE]

_app_upgradable_forgets_install_time(app_infos) ==
    LET app_in_catalog == app_infos.from_catalog
        installed_version == app_infos.version
        settings == app_infos.settings
        local_update_time == IF Has(settings, "update_time") THEN settings["update_time"]
                             ELSE 0
    IN IF ~app_in_catalog.found THEN "url_required"
       ELSE IF \/ ~(app_in_catalog.level.is_int /\ app_in_catalog.level.n >= 5)
               \/ app_in_catalog.state # "working"
       THEN "bad_quality"
       ELSE IF installed_version.ynh /\ app_in_catalog.version.ynh
       THEN (IF version_lt(installed_version, app_in_catalog.version) THEN "yes" ELSE "no")
       ELSE IF app_in_catalog.lastUpdate = 0 \/ ~app_in_catalog.git THEN "url_required"
       ELSE IF app_in_catalog.lastUpdate > local_update_time THEN "yes"
       ELSE "no"

(* Lines 195-238, on the infos of an app: its catalog entry (found or not;  *)
(* a lastUpdate of 0 and a git of FALSE are the missing ones), its          *)
(* installed version and its settings.                                      *)
_app_upgradable(app_infos) ==
    LET app_in_catalog == app_infos.from_catalog
        installed_version == app_infos.version
        settings == app_infos.settings
        local_update_time == IF Has(settings, "update_time") THEN settings["update_time"]
                             ELSE IF Has(settings, "install_time")
                             THEN settings["install_time"] ELSE 0
    IN IF ~app_in_catalog.found THEN "url_required"
       ELSE IF \/ ~(app_in_catalog.level.is_int /\ app_in_catalog.level.n >= 5)
               \/ app_in_catalog.state # "working"
       THEN "bad_quality"
       ELSE IF installed_version.ynh /\ app_in_catalog.version.ynh
       THEN (IF version_lt(installed_version, app_in_catalog.version) THEN "yes" ELSE "no")
       ELSE IF app_in_catalog.lastUpdate = 0 \/ ~app_in_catalog.git THEN "url_required"
       ELSE IF app_in_catalog.lastUpdate > local_update_time THEN "yes"
       ELSE "no"

(* app_info(app, full=True): lines 147-171. *)
app_info(s, app) ==
    [from_catalog |-> CatalogEntry(_parse_app_instance_name(app)[1]),
     version |-> Packages[s.apps[app].files].manifest.version,
     settings |-> _get_app_settings(s, app).settings]

upgrade_type_compares_unmarked(current, new, force) ==
    IF version_ge(current, new) /\ ~force THEN "NO_OP"
    ELSE IF version_gt(current, new) THEN "DOWNGRADE_FORCED"
    ELSE IF current = new THEN "UPGRADE_FORCED"
    ELSE IF current.upstream = new.upstream THEN "UPGRADE_PACKAGE"
    ELSE IF current.pkg = new.pkg THEN "UPGRADE_APP"
    ELSE "UPGRADE_FULL"

upgrade_type_never_full(current, new, force) ==
    IF current.ynh /\ new.ynh
    THEN IF version_ge(current, new) /\ ~force THEN "NO_OP"
         ELSE IF version_gt(current, new) THEN "DOWNGRADE_FORCED"
         ELSE IF current = new THEN "UPGRADE_FORCED"
         ELSE IF current.upstream = new.upstream THEN "UPGRADE_PACKAGE"
         ELSE "UPGRADE_APP"
    ELSE "UNKNOWN"

upgrade_type_downgrades_unforced(current, new, force) ==
    IF current.ynh /\ new.ynh
    THEN IF current = new /\ ~force THEN "NO_OP"
         ELSE IF version_gt(current, new) THEN "DOWNGRADE_FORCED"
         ELSE IF current = new THEN "UPGRADE_FORCED"
         ELSE IF current.upstream = new.upstream THEN "UPGRADE_PACKAGE"
         ELSE IF current.pkg = new.pkg THEN "UPGRADE_APP"
         ELSE "UPGRADE_FULL"
    ELSE "UNKNOWN"

upgrade_type_reruns_equal(current, new, force) ==
    IF current.ynh /\ new.ynh
    THEN IF version_gt(current, new) /\ ~force THEN "NO_OP"
         ELSE IF version_gt(current, new) THEN "DOWNGRADE_FORCED"
         ELSE IF current = new THEN "UPGRADE_FORCED"
         ELSE IF current.upstream = new.upstream THEN "UPGRADE_PACKAGE"
         ELSE IF current.pkg = new.pkg THEN "UPGRADE_APP"
         ELSE "UPGRADE_FULL"
    ELSE "UNKNOWN"

(* Lines 520-555. *)
upgrade_type(current, new, force) ==
    IF current.ynh /\ new.ynh
    THEN IF version_ge(current, new) /\ ~force THEN "NO_OP"
         ELSE IF version_gt(current, new) THEN "DOWNGRADE_FORCED"
         ELSE IF current = new THEN "UPGRADE_FORCED"
         ELSE IF current.upstream = new.upstream THEN "UPGRADE_PACKAGE"
         ELSE IF current.pkg = new.pkg THEN "UPGRADE_APP"
         ELSE "UPGRADE_FULL"
    ELSE "UNKNOWN"

(***************************************************************************)
(* app_upgrade.                                                            *)
(***************************************************************************)
UpRes(s, err, ev, apps_, done, failed, not_upgraded_apps) ==
    [s |-> s, err |-> err, ev |-> ev, id |-> NOBODY,
     info |-> [apps |-> apps_, done |-> done, failed |-> failed,
               not_upgraded_apps |-> not_upgraded_apps]]

(* Line 486: duplicates removed, first occurrences kept. *)
remove_duplicates(l) ==
    LET keep == {i \in 1..Len(l) : \A j \in 1..(i - 1) : l[j] # l[i]}
        f[i \in 0..Len(l)] ==
            IF i = 0 THEN <<>> ELSE IF i \in keep THEN Append(f[i - 1], l[i]) ELSE f[i - 1]
    IN f[Len(l)]

(* Lines 530-537 and 645-651: the update time and the revision. *)
save_update_time(s, app, manifest) ==
    app_setting_set(app_setting_set(s, app, "update_time", now),
                    app, "current_revision", manifest.remote.revision)

(* Lines 653-671: hooks and stored package files replaced, workdir removed. *)
replace_app_files(s, app, src, dir) ==
    LET s1 == hook_add(hook_remove(s, app), app, src)
        s2 == [s1 EXCEPT !.apps = [a \in DOMAIN s1.apps |->
                  IF a = app THEN [s1.apps[a] EXCEPT !.files = src] ELSE s1.apps[a]]]
    IN rmtree_workdir(s2, dir)

(* Line 631: the apps reported as not upgraded when the app at `number` fails. *)
not_upgraded(apps_, number) == SubSeq(apps_, number, Len(apps_))

(* Lines 625-642: the abort of the batch. *)
upgrade_abort(s, apps_, number, msg, ev, done) ==
    UpRes(s, raise_failure(msg), ev, apps_, Append(done, "failed"), number,
          IF number < Len(apps_) THEN not_upgraded(apps_, number) ELSE <<>>)

(* Lines 586-612: the failure message once the script and the post check   *)
(* have ended; "" when neither failed.                                     *)
upgrade_failure_message(script, sane) ==
    IF ~sane THEN "app_action_broke_system"
    ELSE IF script = "failed" THEN "app_upgrade_script_failed"
    ELSE IF script = "raised" THEN UNBOUND
    ELSE ""

upgrade_run_fail_soft(s, apps_, number, src, dir, ev, done) ==
    LET app == apps_[number]
    IN [ok |-> s,
        ev |-> ev \o <<ScriptEv("upgrade", app, "failed"), SaneEv("post", app, TRUE)>>,
        aborts |-> {}]

upgrade_run_stamps_first(s, apps_, number, src, dir, ev, done) ==
    LET app == apps_[number]
        stamped == save_update_time(s, app, Packages[src].manifest)
        evs(script, sane) ==
            ev \o <<ScriptEv("upgrade", app, script), SaneEv("post", app, sane)>>
    IN [ok |-> replace_app_files(stamped, app, src, dir),
        ev |-> evs("ok", TRUE),
        aborts |-> {upgrade_abort(stamped, apps_, number,
                                  upgrade_failure_message(o[1], o[2]),
                                  evs(o[1], o[2]), done) :
                      o \in (ScriptOutcomes \X BOOLEAN) \ {<<"ok", TRUE>>}}]

upgrade_run_ignores_health(s, apps_, number, src, dir, ev, done) ==
    LET app == apps_[number]
        evs(script, sane) ==
            ev \o <<ScriptEv("upgrade", app, script), SaneEv("post", app, sane)>>
    IN [ok |-> replace_app_files(save_update_time(s, app, Packages[src].manifest),
                                 app, src, dir),
        ev |-> evs("ok", FALSE),
        aborts |-> {upgrade_abort(s, apps_, number,
                                  upgrade_failure_message(o[1], o[2]),
                                  evs(o[1], o[2]), done) :
                      o \in ({"failed", "raised"} \X BOOLEAN)}]

(* Lines 586-680: the upgrade script of one app and the post check, then   *)
(* the abort of the batch or the bookkeeping of the success.  The result   *)
(* names the state and events of the success and the possible aborts.      *)
upgrade_run(s, apps_, number, src, dir, ev, done) ==
    LET app == apps_[number]
        evs(script, sane) ==
            ev \o <<ScriptEv("upgrade", app, script), SaneEv("post", app, sane)>>
    IN [ok |-> replace_app_files(save_update_time(s, app, Packages[src].manifest),
                                 app, src, dir),
        ev |-> evs("ok", TRUE),
        aborts |-> {upgrade_abort(s, apps_, number,
                                  upgrade_failure_message(o[1], o[2]),
                                  evs(o[1], o[2]), done) :
                      o \in (ScriptOutcomes \X BOOLEAN) \ {<<"ok", TRUE>>}}]

RECURSIVE upgrade_loop(_, _, _, _, _, _, _)
upgrade_loop(s, apps_, number, file, force, ev, done) ==
    IF number > Len(apps_)
    THEN {UpRes(s, "ok", ev, apps_, done, 0, <<>>)}
    ELSE
    LET app == apps_[number]
        upgradable == _app_upgradable(app_info(s, app))
        s0 == _get_app_settings(s, app).s
        src == IF file # "none" THEN file
               ELSE CatalogEntry(Packages[s.apps[app].files].manifest.id).src
        x == _extract_app(s0, src)
        current == Packages[s.apps[app].files].manifest.version
        type == upgrade_type(current, x.manifest.version, force)
        run == upgrade_run(x.s, apps_, number, src, x.dir,
                           Append(ev, SaneEv("pre", app, TRUE)), done)
    IN IF file = "none" /\ upgradable = "url_required"
       THEN upgrade_loop(s0, apps_, number + 1, file, force, ev,
                         Append(done, "url_required"))
       ELSE IF file = "none" /\ ~(upgradable = "yes" \/ force)
       THEN upgrade_loop(s0, apps_, number + 1, file, force, ev,
                         Append(done, "already_up_to_date"))
       ELSE IF type = "NO_OP"
       THEN upgrade_loop(save_update_time(x.s, app, x.manifest), apps_, number + 1,
                         file, force, ev, Append(done, "no_op"))
       ELSE IF _check_manifest_requirements(x.manifest) # "ok"
       THEN {UpRes(x.s, _check_manifest_requirements(x.manifest), ev, apps_,
                   Append(done, "rejected"), number, <<>>)}
       ELSE {UpRes(x.s, "app_action_cannot_be_ran_because_required_services_down",
                   Append(ev, SaneEv("pre", app, FALSE)), apps_,
                   Append(done, "rejected"), number, <<>>)}
            \cup run.aborts
            \cup upgrade_loop(run.ok, apps_, number + 1, file, force, run.ev,
                              Append(done, "upgraded"))

(* The orders in which os.listdir can return a set of names. *)
RECURSIVE listings(_)
listings(S) == IF S = {} THEN {<<>>}
               ELSE UNION {{<<a>> \o l : l \in listings(S \ {a})} : a \in S}

app_upgrade_skips_missing(s, app, file, force) ==
    UNION {
      LET apps_ == SelectSeq(remove_duplicates(given), LAMBDA a : _is_installed(s, a))
      IN IF Len(apps_) = 0
         THEN {UpRes(s, "apps_already_up_to_date", <<>>, apps_, <<>>, 0, <<>>)}
         ELSE upgrade_loop(s, apps_, 1, file, force, <<>>, <<>>)
      : given \in IF Len(app) = 0 /\ file = "none" THEN listings(_installed_apps(s))
                  ELSE {app}}

app_upgrade(s, app, file, force) ==
    UNION {
      LET apps_ == remove_duplicates(given)
      IN IF \E i \in 1..Len(apps_) : ~_is_installed(s, apps_[i])
         THEN {UpRes(s, "app_not_installed", <<>>, apps_, <<>>, 0, <<>>)}
         ELSE IF Len(apps_) = 0
         THEN {UpRes(s, "apps_already_up_to_date", <<>>, apps_, <<>>, 0, <<>>)}
         ELSE upgrade_loop(s, apps_, 1, file, force, <<>>, <<>>)
      : given \in IF Len(app) = 0 /\ file = "none" THEN listings(_installed_apps(s))
                  ELSE {app}}

(***************************************************************************)
(* app_remove.                                                             *)
(***************************************************************************)
app_remove_stops_on_failure(s, app) ==
    IF ~_is_installed(s, app) THEN {Res(s, "app_not_installed", <<>>, app)}
    ELSE
    UNION {
      LET w == _make_tmp_workdir_for_app(s)
          s1 == rmtree_workdir(w.s, w.dir)
          s2 == delete_app_permissions(s1, app)
          s3 == hook_remove(rmtree_app_setting_path(s2, app), app)
      IN IF remove # "ok"
         THEN {InstRes(s1, "app_not_properly_removed",
                       <<ScriptEv("remove", app, remove)>>, app, w.dir)}
         ELSE {InstRes(s3, IF sane THEN "ok" ELSE "app_action_broke_system",
                       <<ScriptEv("remove", app, remove), SaneEv("post", app, sane)>>,
                       app, w.dir)
               : sane \in BOOLEAN}
      : remove \in ScriptOutcomes}

app_remove_checks_first(s, app) ==
    IF ~_is_installed(s, app) THEN {Res(s, "app_not_installed", <<>>, app)}
    ELSE
    UNION {
      LET w == _make_tmp_workdir_for_app(s)
          s1 == rmtree_workdir(w.s, w.dir)
          s2 == delete_app_permissions(s1, app)
          s3 == hook_remove(rmtree_app_setting_path(s2, app), app)
      IN {InstRes(IF sane THEN s3 ELSE s1,
                  IF sane THEN "ok" ELSE "app_action_broke_system",
                  <<ScriptEv("remove", app, remove), SaneEv("post", app, sane)>>,
                  app, w.dir)
          : sane \in BOOLEAN}
      : remove \in ScriptOutcomes}

app_remove(s, app) ==
    IF ~_is_installed(s, app) THEN {Res(s, "app_not_installed", <<>>, app)}
    ELSE
    UNION {
      LET w == _make_tmp_workdir_for_app(s)
          s1 == rmtree_workdir(w.s, w.dir)
          s2 == delete_app_permissions(s1, app)
          s3 == hook_remove(rmtree_app_setting_path(s2, app), app)
      IN {InstRes(s3, IF sane THEN "ok" ELSE "app_action_broke_system",
                  <<ScriptEv("remove", app, remove), SaneEv("post", app, sane)>>,
                  app, w.dir)
          : sane \in BOOLEAN}
      : remove \in ScriptOutcomes}

(***************************************************************************)
(* app_change_url.                                                         *)
(***************************************************************************)
(* What the change_url script may have written to the settings itself. *)
change_url_script_effect(s, app, domain, path, writes) ==
    IF writes
    THEN app_setting_set(app_setting_set(s, app, "domain", domain), app, "path", path)
    ELSE s

change_url_run_keeps_new(s, app, old_domain, old_path, domain, path) ==
    UNION {
      LET w == _make_tmp_workdir_for_app(s)
          s1 == change_url_script_effect(w.s, app, domain, path, writes)
          ev == <<ScriptEv("change_url", app, script)>>
      IN IF script = "raised"
         THEN {Res(s1, "script_exception", ev, app)}
         ELSE IF script = "failed"
         THEN {Res(s1, "ok", Append(ev, <<"logged_error", "change_url", app>>), app)}
         ELSE {Res(app_setting_set(
                       app_setting_set(rmtree_workdir(s1, w.dir), app, "domain", domain),
                       app, "path", path),
                   "ok", Append(ev, <<"ssowatconf", "change_url", app>>), app)}
      : <<script, writes>> \in ScriptOutcomes \X BOOLEAN}

(* Lines 408-448: the workdir, the script and what follows its exit code. *)
change_url_run(s, app, old_domain, old_path, domain, path) ==
    UNION {
      LET w == _make_tmp_workdir_for_app(s)
          s1 == change_url_script_effect(w.s, app, domain, path, writes)
          ev == <<ScriptEv("change_url", app, script)>>
      IN IF script = "raised"
         THEN {Res(s1, "script_exception", ev, app)}
         ELSE IF script = "failed"
         THEN {Res(app_setting_set(app_setting_set(s1, app, "domain", old_domain),
                                   app, "path", old_path),
                   "ok", Append(ev, <<"logged_error", "change_url", app>>), app)}
         ELSE {Res(app_setting_set(
                       app_setting_set(rmtree_workdir(s1, w.dir), app, "domain", domain),
                       app, "path", path),
                   "ok", Append(ev, <<"ssowatconf", "change_url", app>>), app)}
      : <<script, writes>> \in ScriptOutcomes \X BOOLEAN}

app_change_url(s, app, domain_, path_) ==
    IF ~_is_installed(s, app) THEN {Res(s, "app_not_installed", <<>>, app)}
    ELSE IF "change_url" \notin Packages[s.apps[app].files].scripts
    THEN {Res(s, "app_change_url_no_script", <<>>, app)}
    ELSE
    LET d == app_setting_get(s, app, "domain")
        q == app_setting_get(d.s, app, "path")
        domain == normalize_domain(domain_)
        old_domain == normalize_domain(d.value)
        path == normalize_path(path_)
        old_path == normalize_path(q.value)
        v == _validate_webpath_requirement(
                 q.s, [domain |-> domain, path |-> path],
                 _guess_webapp_path_requirement(Packages[s.apps[app].files]), app)
    IN IF ~d.found \/ ~q.found THEN {Res(q.s, "normalize_exception", <<>>, app)}
       ELSE IF <<domain, path>> = <<old_domain, old_path>>
       THEN {Res(q.s, "app_change_url_identical_domains", <<>>, app)}
       ELSE IF v.err # "ok" THEN {Res(v.s, v.err, <<>>, app)}
       ELSE change_url_run(v.s, app, old_domain, old_path, domain, path)

(***************************************************************************)
(* app_setting, regular keys.                                              *)
(***************************************************************************)
(* Lines 1207-1209 and 1222: the keys of legacy permission settings, the   *)
(* word before the first "_" and whether the key ends with "_regex".       *)
LegacyKeys ==
    [unprotected_uris |-> [word |-> "unprotected", regex |-> FALSE,
                           permission |-> <<"legacy_unprotected_uris">>],
     unprotected_regex |-> [word |-> "unprotected", regex |-> TRUE,
                            permission |-> <<"legacy_unprotected_uris">>],
     protected_uris |-> [word |-> "protected", regex |-> FALSE,
                         permission |-> <<"legacy_protected_uris">>],
     skipped_regex |-> [word |-> "skipped", regex |-> TRUE,
                        permission |-> <<"legacy_skipped_uris">>]]

is_legacy_permission_setting(key) == key \in DOMAIN LegacyKeys

(* The answer of a get: a value, or none. *)
Got(s, app, found, value) ==
    [Res(s, "ok", <<>>, app) EXCEPT !.info = IF found THEN <<value>> ELSE <<>>]

(* Lines 1211-1311: a legacy permission setting lives in the Permission    *)
(* Directory, not in the record.  A permission listed by the directory has *)
(* no "uris" entry, so the get joins its additional urls.                  *)
legacy_permission_setting(s, app, app_settings, key, value, act) ==
    LET permission_name == app \o DOT \o LegacyKeys[key].permission
        permission == permission_name \in DOMAIN s.perms
        opens == LegacyKeys[key].word \in {"unprotected", "skipped"}
        main == main_permission(app)
        urls == IF LegacyKeys[key].regex
                THEN [i \in DOMAIN split(value, ",") |-> RE \o split(value, ",")[i]]
                ELSE split(value, ",")
        current_urls_or_regex ==
            SelectSeq(s.perms[permission_name].additional_urls,
                      LAMBDA url : startswith(url, RE) # LegacyKeys[key].regex)
    IN IF act = "get"
       THEN Got(s, app, permission,
                IF permission THEN join(s.perms[permission_name].additional_urls, ",")
                ELSE <<>>)
       ELSE IF act = "delete"
       THEN LET s1 == IF /\ Has(app_settings, "is_public")
                         /\ "visitors" \in s.perms[main].allowed
                         /\ opens
                      THEN user_permission_update(s, main, {}, {"visitors"})
                      ELSE s
            IN Res(IF permission THEN permission_delete(s1, permission_name) ELSE s1,
                   "ok", <<>>, app)
       ELSE IF value = ROOT
       THEN Res(IF opens
                THEN user_permission_update(permission_url(s, main, ROOT), main,
                                            {"visitors"}, {})
                ELSE user_permission_update(s, main, {}, {"visitors"}),
                "ok", <<>>, app)
       ELSE IF permission
       THEN Res(permission_replace_urls(s, permission_name,
                                        urls \o current_urls_or_regex),
                "ok", <<>>, app)
       ELSE Res(permission_create_legacy(s, permission_name,
                    IF LegacyKeys[key].word = "protected" THEN {"all_users"}
                    ELSE {"all_users", "visitors"},
                    urls),
                "ok", <<>>, app)

(* yaml.safe_load of a plain scalar: decimal digits are loaded as an       *)
(* integer, written here as the tag "int" before its decimal digits, and   *)
(* any other plain scalar as the string itself.                            *)
yaml_safe_load(value) ==
    IF Len(value) > 0 /\ value[1] # "0" /\ \A i \in 1..Len(value) : IsDigit(value[i])
    THEN <<"int">> \o str(int(value))
    ELSE value

(* Lines 1189-1332. *)
app_setting(s, app, key, value, act) ==
    IF ~_is_installed(s, app) THEN [Res(s, "app_not_installed", <<>>, app) EXCEPT !.info = <<>>]
    ELSE
    LET r == _get_app_settings(s, app)
    IN IF is_legacy_permission_setting(key)
       THEN legacy_permission_setting(r.s, app, r.settings, key, value, act)
       ELSE IF act = "get"
       THEN Got(r.s, app, Has(r.settings, key),
                IF Has(r.settings, key) THEN r.settings[key] ELSE <<>>)
       ELSE IF act = "delete" THEN Res(app_setting_delete(s, app, key), "ok", <<>>, app)
       ELSE Res(app_setting_set(s, app, key,
                                IF key \in {"redirected_urls", "redirected_regex"}
                                THEN yaml_safe_load(value) ELSE value),
                "ok", <<>>, app)

(***************************************************************************)
(* The state machine: one action per exposed operation.                    *)
(***************************************************************************)
P_B == <<"/", "b">>

P_B2 == <<"/", "b", "2">>

(* The packages an install is asked for, and a source that does not exist; *)
(* the package without the marker behaves in an install as v1 does.        *)
InstallSources == (Sources \ {"old", "twopaths", "bare"}) \cup {"nowhere"}

Answers == {[domain |-> <<"d1">>, path |-> P_B],
            [domain |-> <<"d1">>, path |-> P_B2],
            [domain |-> <<"d2">>, path |-> P_B],
            [domain |-> <<"nope">>, path |-> P_B]}

(* The same, and the root of the first domain. *)
WebAnswers == Answers \cup {[domain |-> <<"d1">>, path |-> ROOT]}

InstanceNames == {BASE} \cup {BASE \o SEP \o str(n) : n \in 2..(MaxInstances + 1)}

Commit(op, arg, flag, r) ==
    /\ apps' = r.s.apps
    /\ perms' = r.s.perms
    /\ hooks' = r.s.hooks
    /\ workdirs' = r.s.workdirs
    /\ now' = now
    /\ installing' = installing
    /\ pre' = Cur
    /\ last' = [op |-> op, arg |-> arg, flag |-> flag,
                err |-> r.err, ev |-> r.ev, id |-> r.id, info |-> r.info]

NoCall == [op |-> "none", arg |-> "", flag |-> FALSE, err |-> "ok", ev |-> <<>>,
           id |-> NOBODY, info |-> <<>>]

(* The callers that may be inside app_install at the same time, and where *)
(* each is: before the call, past the computation of its instance name,    *)
(* or past the creation of its record.                                     *)
Callers == {1, 2}

NotInstalling == [pc |-> "idle", src |-> "", app_instance_name |-> NOBODY,
                  extracted_app_folder |-> 0, seen |-> {}]

NoSnapshot == [apps |-> EmptyDict, perms |-> EmptyDict, hooks |-> EmptyDict,
               workdirs |-> EmptyDict]

(* A call is accepted when the previous one has returned to its caller and *)
(* the scratch root has room for the workdirs it allocates.                *)
CanCall == last = NoCall /\ Cardinality(DOMAIN workdirs) < MaxWorkdirs

(* The caller takes the result of the call. *)
Return ==
    /\ last # NoCall
    /\ last' = NoCall
    /\ pre' = NoSnapshot
    /\ UNCHANGED <<apps, perms, hooks, workdirs, now, installing>>

Install(sources, answers_) ==
    /\ CanCall
    /\ Cardinality(DOMAIN apps) < MaxInstances
    /\ \E src \in sources, answers \in answers_, no_remove_on_failure \in BOOLEAN :
         \E r \in app_install(Cur, src, answers, no_remove_on_failure) :
            Commit("install", [src |-> src, answers |-> answers],
                   no_remove_on_failure, r)

(***************************************************************************)
(* app_install as its callers interleave: no lock is taken between the     *)
(* steps, so another caller's step can fall between any two of them.       *)
(***************************************************************************)
Report(op, arg, flag, r) ==
    [op |-> op, arg |-> arg, flag |-> flag,
     err |-> r.err, ev |-> r.ev, id |-> r.id, info |-> r.info]

StoreBecomes(s) ==
    /\ apps' = s.apps
    /\ perms' = s.perms
    /\ hooks' = s.hooks
    /\ workdirs' = s.workdirs
    /\ now' = now
    /\ pre' = Cur

(* Lines 768-803: the package is fetched, the checks are made, the number  *)
(* and the name of the instance are computed from the installed apps.      *)
install_number(s, src) ==
    LET x == _extract_app(s, src)
        manifest == x.manifest
        app_id == manifest.id
        instance_number == _next_instance_number_for_app(x.s, app_id)
        app_instance_name == instance_name_for(app_id, instance_number)
        v == _validate_webpath_requirement(
                 x.s, EmptyDict, _guess_webapp_path_requirement(Packages[src]), NOBODY)
    IN IF contains(app_id, SEP) \/ contains(app_id, DOT)
       THEN {InstRes(x.s, "app_id_invalid", <<>>, NOBODY, x.dir)}
       ELSE IF _check_manifest_requirements(manifest) # "ok"
       THEN {InstRes(x.s, _check_manifest_requirements(manifest), <<>>, NOBODY, x.dir)}
       ELSE {InstRes(x.s, "app_action_cannot_be_ran_because_required_services_down",
                     <<SaneEv("pre", app_id, FALSE)>>, NOBODY, x.dir)}
            \cup
            (IF /\ instance_number > 1
                /\ (~Has(manifest, "multi_instance") \/ ~is_true(manifest["multi_instance"]))
             THEN {InstRes(x.s, "app_already_installed",
                           <<SaneEv("pre", app_id, TRUE)>>, NOBODY, x.dir)}
             ELSE IF v.err # "ok"
             THEN {InstRes(v.s, v.err, <<SaneEv("pre", app_id, TRUE)>>, NOBODY, x.dir)}
             ELSE {InstRes(x.s, "ok", <<SaneEv("pre", app_id, TRUE)>>,
                           app_instance_name, x.dir)})

(* The callers past the computation of their instance name. *)
InFlight == {caller \in Callers : installing[caller].pc # "idle"}

InstallNumber(sources) ==
    /\ Cardinality(DOMAIN workdirs) < MaxWorkdirs
    /\ Cardinality(DOMAIN apps) + Cardinality(InFlight) < MaxInstances
    /\ \E caller \in Callers, src \in sources :
         /\ installing[caller].pc = "idle"
         /\ \E r \in install_number(Cur, src) :
              /\ StoreBecomes(r.s)
              /\ last' = Report("install_number", caller, FALSE, r)
              /\ installing' =
                    IF r.err = "ok"
                    THEN [installing EXCEPT ![caller] =
                             [pc |-> "numbered", src |-> src,
                              app_instance_name |-> r.id,
                              extracted_app_folder |-> r.info.dir,
                              seen |-> _installed_apps(Cur)]]
                    ELSE installing

(* Lines 822-843: the caller creates the record under the name it holds. *)
InstallRecord ==
    \E caller \in Callers :
       LET c == installing[caller]
       IN /\ c.pc = "numbered"
          /\ StoreBecomes(make_app_setting_path(Cur, c.app_instance_name, c.src,
                                                Packages[c.src].manifest))
          /\ last' = Report("install_record", caller, FALSE,
                            InstRes(Cur, "ok", <<>>, c.app_instance_name,
                                    c.extracted_app_folder))
          /\ installing' = [installing EXCEPT ![caller].pc = "recorded"]

(* Lines 849-992: the main permission, the install script and what follows *)
(* it, to the end of the call.                                              *)
InstallScript(flags) ==
    \E caller \in Callers, no_remove_on_failure \in flags :
       LET c == installing[caller]
       IN /\ c.pc = "recorded"
          /\ \E r \in install_run(
                        permission_create(Cur, main_permission(c.app_instance_name)),
                        c.app_instance_name, c.src, EmptyDict,
                        c.extracted_app_folder, <<>>, no_remove_on_failure) :
               /\ StoreBecomes(r.s)
               /\ last' = Report("install_script", caller, no_remove_on_failure, r)
               /\ installing' = [installing EXCEPT ![caller] = NotInstalling]

Remove ==
    /\ CanCall
    /\ \E app \in InstanceNames :
         \E r \in app_remove(Cur, app) : Commit("remove", app, FALSE, r)

UpgradeLists ==
    UNION {[1..n -> InstanceNames] : n \in 0..MaxBatch}

UpgradeFiles == {"none", "v1", "v2", "needy"}

Upgrade(lists, files) ==
    /\ CanCall
    /\ \E app \in lists, file \in files, force \in BOOLEAN :
         \E r \in app_upgrade(Cur, app, file, force) :
            Commit("upgrade", [apps |-> app, file |-> file], force, r)

Targets == Answers \cup {[domain |-> <<"d1", "/">>, path |-> <<"b", "/">>]}

RegisterUrl(targets) ==
    /\ last = NoCall
    /\ \E app \in InstanceNames, target \in targets :
         LET r == app_register_url(Cur, app, target.domain, target.path)
         IN Commit("register_url", [app |-> app, target |-> target], FALSE,
                   Res(r.s, r.err, <<>>, app))

ChangeUrlTo(targets) ==
    /\ CanCall
    /\ \E app \in InstanceNames, target \in targets :
         \E r \in app_change_url(Cur, app, target.domain, target.path) :
            Commit("change_url", [app |-> app, target |-> target], FALSE, r)

ChangeUrl == ChangeUrlTo(Targets)

SettingInputs == {[key |-> "path", value |-> <<"/", "b", "/">>],
                  [key |-> "path", value |-> <<"b", "2">>]}

SettingActs == {"get", "set", "delete"}

(* A regular key, the path, the id, legacy permission keys and a key whose *)
(* value is parsed before it is stored.                                    *)
SettingKeys == {[key |-> "is_public", value |-> <<"1">>],
                [key |-> "path", value |-> <<"/", "c", "/">>],
                [key |-> "id", value |-> <<"z">>],
                [key |-> "unprotected_uris", value |-> ROOT],
                [key |-> "unprotected_uris", value |-> <<"/", "u">>],
                [key |-> "unprotected_regex", value |-> <<"r">>],
                [key |-> "redirected_urls", value |-> <<"1">>]}

Setting(inputs, acts) ==
    /\ last = NoCall
    /\ \E app \in InstanceNames, kv \in inputs, act \in acts :
         Commit("setting", <<act, kv.key, kv.value>>, FALSE,
                app_setting(Cur, app, kv.key, kv.value, act))

(* The answer of a function of this module to its caller. *)
Answer(op, arg, info) ==
    /\ last = NoCall
    /\ last' = [NoCall EXCEPT !.op = op, !.arg = arg, !.info = info]
    /\ UNCHANGED <<apps, perms, hooks, workdirs, now, pre, installing>>

(* The paths a record may hold: every string of "/", "b" and "c". *)
StoredPaths == UNION {[1..n -> {"/", "b", "c"}] : n \in 0..MaxPathLen}

(* A store with the record of one instance, with the path and the id. *)
StoreWith(settings) ==
    [NoSnapshot EXCEPT !.apps = DictSet(EmptyDict, BASE,
                                        [settings |-> settings, files |-> "web"])]

RecordsOnDisk ==
    {DictSet(DictSet(EmptyDict, "id", id), "path", path) :
        id \in {BASE, <<"z">>}, path \in StoredPaths}
    \cup {DictSet(EmptyDict, "id", id) : id \in {BASE, <<"z">>}}

(* A read of the record: what it returns and what it leaves stored. *)
ReadRecord ==
    /\ last = NoCall
    /\ \E settings \in RecordsOnDisk :
         LET r == _get_app_settings(StoreWith(settings), BASE)
         IN Answer("read", settings,
                   [settings |-> r.settings, stored |-> r.s.apps[BASE].settings])

(* Application ids that carry no instance suffix. *)
BaseIds == {<<"d">>, <<"d", "1">>, <<"d", "-", "x">>, <<"a", "_">>, <<"a", "_", "_">>,
            <<"a", "_", "_", "2", "b">>, <<"d", "_", "_", "0">>,
            <<"d", "_", "_", "0", "2">>, <<"d", "_", "2">>}

(* Names whose ending looks like an instance suffix and is none. *)
OddNames == {<<"d", "_", "_", "0">>, <<"d", "_", "_", "0", "1">>,
             <<"d", "_", "_", "2", "3", "a", "b">>,
             <<"d", "_", "_", "2", "3", "a", "b", "5">>,
             <<"d", "_", "_", "x">>, <<"d", "_", "_">>}

(* _parse_app_instance_name of the name an install generates. *)
ParseGenerated ==
    /\ last = NoCall
    /\ \E base \in BaseIds, n \in 1..MaxNumber :
           Answer("parse", [base |-> base, n |-> n],
                  [name |-> instance_name_for(base, n),
                   parsed |-> _parse_app_instance_name(instance_name_for(base, n))])

ParseOdd ==
    /\ last = NoCall
    /\ \E name \in OddNames :
           Answer("parse_odd", name, [parsed |-> _parse_app_instance_name(name)])

(* A platform with the instances of an app that have the given numbers,    *)
(* and an app of another name.                                             *)
Siblings(app, numbers) ==
    [apps |-> [a \in {instance_name_for(app, n) : n \in numbers} \cup {<<"x">>} |->
                  [settings |-> [id |-> a], files |-> "v1"]],
     perms |-> EmptyDict,
     hooks |-> EmptyDict,
     workdirs |-> EmptyDict]

NextNumber ==
    /\ last = NoCall
    /\ \E numbers \in SUBSET (1..MaxSiblings) :
           Answer("next_number", numbers,
                  [number |-> _next_instance_number_for_app(Siblings(BASE, numbers), BASE)])

(* Versions: with or without the ~ynh marker, an upstream part and a       *)
(* packaging revision.                                                     *)
Versions == [ynh : BOOLEAN, upstream : 1..MaxVersion, pkg : 1..MaxVersion]

(* The classification of lines 520-555 of an installed and a new version. *)
Classify ==
    /\ last = NoCall
    /\ \E current \in Versions, new \in Versions, force \in BOOLEAN :
           Answer("classify", [current |-> current, new |-> new, force |-> force],
                  [type |-> upgrade_type(current, new, force)])

(* Catalog entries: none, or one with a level (an integer or not), a       *)
(* state, a version, a lastUpdate and a git reference (0 and FALSE: none). *)
CatalogEntries ==
    [found : BOOLEAN,
     level : {[is_int |-> FALSE, n |-> 8], [is_int |-> TRUE, n |-> 4],
              [is_int |-> TRUE, n |-> 5]},
     state : {"working", "inprogress"},
     src : {"v2"},
     version : {v \in Versions : v.pkg = 1},
     lastUpdate : {0, 1, 2},
     git : BOOLEAN]

(* Settings with no time, an install time, and both times either way. *)
TimedSettings ==
    {[id |-> BASE],
     [id |-> BASE, install_time |-> 1],
     [id |-> BASE, install_time |-> 2],
     [id |-> BASE, install_time |-> 2, update_time |-> 1],
     [id |-> BASE, install_time |-> 1, update_time |-> 2]}

Upgradable ==
    /\ last = NoCall
    /\ \E from_catalog \in CatalogEntries, version \in Versions, settings \in TimedSettings :
           Answer("upgradable",
                  [from_catalog |-> from_catalog, version |-> version,
                   settings |-> settings],
                  [upgradable |-> _app_upgradable([from_catalog |-> from_catalog,
                                                   version |-> version,
                                                   settings |-> settings])])

(* time.time(): a second passes between two calls. *)
Tick ==
    /\ last = NoCall
    /\ now < MaxClock
    /\ now' = now + 1
    /\ UNCHANGED <<apps, perms, hooks, workdirs, last, pre, installing>>

(* time.time(): the instants around the start and around twelve hours    *)
(* after it, at which an operation may be called.                          *)
Instants ==
    {t \in {k * WORKDIR_TTL + j : k \in 0..1, j \in (0 - MaxClock)..MaxClock} : t >= 0}

Wait ==
    /\ last = NoCall
    /\ \E t \in Instants :
         /\ t > now
         /\ now' = t
    /\ UNCHANGED <<apps, perms, hooks, workdirs, last, pre, installing>>

(* An instance name no install can produce within the bounds. *)
GHOST == BASE \o SEP \o str(MaxInstances + 1)

GhostLists == {l \in UpgradeLists : \E i \in DOMAIN l : l[i] = GHOST}

(* The lists of names that installs can produce within the bounds. *)
SingleLists == {<<app>> : app \in InstanceNames}

BatchLists == UpgradeLists \ GhostLists

Init ==
    /\ apps = EmptyDict
    /\ perms = EmptyDict
    /\ hooks = EmptyDict
    /\ workdirs = EmptyDict
    /\ now = 0
    /\ pre = NoSnapshot
    /\ last = NoCall
    /\ installing = [caller \in Callers |-> NotInstalling]

Next == \/ Install(InstallSources, Answers)
        \/ Upgrade(UpgradeLists, UpgradeFiles)
        \/ Remove
        \/ ChangeUrl
        \/ Setting(SettingInputs, SettingActs)
        \/ Tick
        \/ Return

Spec == Init /\ [][Next]_vars

(***************************************************************************)
(* What the last call did, read from its report.                           *)
(***************************************************************************)
Events == DOMAIN last.ev

IsScript(i, name, app, outcomes) ==
    /\ i \in Events
    /\ last.ev[i] \in {<<"script", name, app, o>> : o \in outcomes}

IsPostCheck(i, app, findings) ==
    /\ i \in Events
    /\ last.ev[i] \in {<<"sane", "post", app, f>> : f \in findings}

ScriptEnded(name, app, outcomes) == \E i \in Events : IsScript(i, name, app, outcomes)

ScriptRan(name, app) == ScriptEnded(name, app, ScriptOutcomes)

AnyScriptRan == \E i \in Events : last.ev[i][1] = "script"

Absent(app) ==
    /\ app \notin DOMAIN apps
    /\ \A p \in DOMAIN perms : ~startswith(p, app \o <<".">>)

(* The install script ran and ended in one of the outcomes. *)
InstallEnded(outcomes) ==
    last.op = "install" /\ ScriptEnded("install", last.id, outcomes)

(* The install script ended well and the check after it found the system   *)
(* broken.                                                                 *)
InstallBrokeSystem ==
    /\ last.op = "install"
    /\ \E i \in Events : /\ IsScript(i, "install", last.id, {"ok"})
                         /\ IsPostCheck(i + 1, last.id, {"broken"})

InstallFailed == InstallEnded({"failed", "raised"}) \/ InstallBrokeSystem

(***************************************************************************)
(* Install: failure and rollback.                                          *)
(***************************************************************************)

(* C1: when the install script exits nonzero and no_remove_on_failure is   *)
(* not set, the instance is not installed after the call and no permission *)
(* whose name starts with "<instance id>." exists.                         *)
C1_InstallAtomicity ==
    (InstallEnded({"failed"}) /\ ~last.flag) => Absent(last.id)

C1_Witness ==
    /\ InstallEnded({"failed"})
    /\ ~last.flag
    /\ ScriptRan("remove", last.id)
    /\ last.id = BASE \o SEP \o <<"2">>
    /\ BASE \in DOMAIN apps

(* C2: when the install fails, by its script or by the health check after  *)
(* it, and no_remove_on_failure is set, the remove script is not invoked,  *)
(* the record, the main permission and the workdir remain, and the call    *)
(* ends in an error.                                                       *)
C2_NoRemoveOnFailure ==
    (InstallFailed /\ last.flag) =>
        /\ ~ScriptRan("remove", last.id)
        /\ last.id \in DOMAIN apps
        /\ last.id \o <<".", "main">> \in DOMAIN perms
        /\ last.info.dir \in DOMAIN workdirs
        /\ last.err # "ok"

C2_Witness ==
    /\ InstallBrokeSystem
    /\ last.flag
    /\ last.id \in DOMAIN apps
    /\ last.info.dir \in DOMAIN workdirs

(* C3: in the rollback of an install, a remove script that exits nonzero   *)
(* or raises does not block the cleanup: permissions and record are        *)
(* deleted, the workdir is removed, and the error the caller gets is the   *)
(* failure of the install.                                                 *)
C3_RollbackSurvivesRemoveFailure ==
    (last.op = "install" /\ ScriptEnded("remove", last.id, {"failed", "raised"})) =>
        /\ Absent(last.id)
        /\ last.info.dir \notin DOMAIN workdirs
        /\ last.err \in {"app_install_script_failed", "app_action_broke_system"}

(* The part of C3 that holds whatever ended the install script: the        *)
(* cleanup is complete and the call ends in an error.                      *)
C3_CleanupSurvivesRemoveFailure ==
    (last.op = "install" /\ ScriptEnded("remove", last.id, {"failed", "raised"})) =>
        /\ Absent(last.id)
        /\ last.info.dir \notin DOMAIN workdirs
        /\ last.err # "ok"

C3_Witness ==
    /\ InstallEnded({"raised"})
    /\ ScriptEnded("remove", last.id, {"raised"})
    /\ last.err = "UnboundLocalError"

(* C4: when the install script succeeds and the health check after it      *)
(* fails, the install is rolled back as after a script failure: the remove *)
(* script is invoked, permissions and record are deleted, the call ends in *)
(* an error and the instance is absent.                                    *)
C4_HealthFailureRollsBack ==
    (InstallBrokeSystem /\ ~last.flag) =>
        /\ ScriptRan("remove", last.id)
        /\ Absent(last.id)
        /\ last.info.dir \notin DOMAIN workdirs
        /\ last.err = "app_action_broke_system"

C4_Witness ==
    /\ InstallBrokeSystem
    /\ ~last.flag
    /\ ScriptEnded("remove", last.id, {"ok"})
    /\ last.id \notin DOMAIN apps

(* C5 as stated: every invocation of the install script, however it ends,  *)
(* is followed by a post check before the call ends.                       *)
C5_PostCheckAfterEveryInstallScript ==
    InstallEnded(ScriptOutcomes) =>
        \E i, j \in Events : /\ IsScript(i, "install", last.id, ScriptOutcomes)
                             /\ j > i
                             /\ IsPostCheck(j, last.id, {"sane", "broken"})

(* C5, amended: an install script that succeeds is followed at once by a   *)
(* post check; after one that exits nonzero or is interrupted a post check *)
(* runs exactly when the rollback's remove script exits zero.              *)
C5_PostCheckAfterInstall ==
    \A i \in Events :
        /\ IsScript(i, "install", last.id, {"ok"}) =>
               IsPostCheck(i + 1, last.id, {"sane", "broken"})
        /\ IsScript(i, "install", last.id, {"failed", "raised"}) =>
               ((\E j \in Events : j > i /\ IsPostCheck(j, last.id, {"sane", "broken"}))
                   <=> ScriptEnded("remove", last.id, {"ok"}))

C5_Witness ==
    /\ InstallEnded({"failed"})
    /\ last.flag
    /\ \A j \in Events : ~IsPostCheck(j, last.id, {"sane", "broken"})


(***************************************************************************)
(* Validation failures.                                                    *)
(***************************************************************************)
ValidationFailed ==
    \/ /\ last.op = "install"
       /\ last.err \in {"app_id_invalid", "app_packaging_format_not_supported",
                        "app_requirements_unmeet",
                        "app_action_cannot_be_ran_because_required_services_down",
                        "app_already_installed", "domain_unknown",
                        "app_location_unavailable", "app_full_domain_unavailable"}
    \/ /\ last.op \in {"upgrade", "remove"}
       /\ last.err = "app_not_installed"
    \/ /\ last.op = "change_url"
       /\ last.err \in {"app_change_url_no_script", "app_change_url_identical_domains",
                        "app_location_unavailable", "app_full_domain_unavailable"}

(* The record is the old one but for its stored path, which was not in     *)
(* normal form and now is.                                                 *)
PathRewritten(old, new) ==
    /\ "path" \in DOMAIN old.settings
    /\ LET path == old.settings["path"]
       IN /\ path # <<"/">>
          /\ path[1] # "/" \/ path[Len(path)] = "/"
          /\ new = [old EXCEPT !.settings =
                       [k \in DOMAIN old.settings |->
                           IF k = "path" THEN <<"/">> \o strip(path, "/")
                           ELSE old.settings[k]]]

(* C6 as stated: after a validation failure of install, upgrade, remove or *)
(* change-url no lifecycle script has been invoked and the App Record      *)
(* Store and the Permission Directory are exactly as before the call.      *)
C6_ValidationNeverMutates ==
    ValidationFailed =>
        /\ ~AnyScriptRan
        /\ apps = pre.apps
        /\ perms = pre.perms

(* C6, amended: after a validation failure no lifecycle script has been    *)
(* invoked, the Permission Directory is exactly as before, no record has   *)
(* been created or deleted, and a record differs from before at most by    *)
(* a stored path rewritten to normal form.                                 *)
C6_ValidationOnlyNormalizes ==
    ValidationFailed =>
        /\ ~AnyScriptRan
        /\ perms = pre.perms
        /\ DOMAIN apps = DOMAIN pre.apps
        /\ \A a \in DOMAIN apps :
              apps[a] = pre.apps[a] \/ PathRewritten(pre.apps[a], apps[a])

C6_Witness ==
    /\ last.op = "install"
    /\ last.err = "app_location_unavailable"
    /\ \E a \in DOMAIN apps : PathRewritten(pre.apps[a], apps[a])


(***************************************************************************)
(* Batch upgrade.                                                          *)
(***************************************************************************)
(* The de-duplicated list the call worked on. *)
Batch == IF last.op = "upgrade" THEN last.info.apps ELSE <<>>

Position(app) == CHOOSE k \in DOMAIN Batch : Batch[k] = app

(* The package the call upgrades to: the file given, or the catalog's. *)
TargetSrc == IF last.arg.file # "none" THEN last.arg.file ELSE Catalog.d

TargetVersion == Packages[TargetSrc].manifest.version

TargetRevision == Packages[TargetSrc].manifest.remote.revision

InstalledVersion(app) == Packages[pre.apps[app].files].manifest.version

Older(v, w) == v.upstream < w.upstream \/ (v.upstream = w.upstream /\ v.pkg < w.pkg)

(* A target is resolved for the app: a source is given, or the catalog     *)
(* has a newer version, or the upgrade is forced.                          *)
HasTarget(app) ==
    \/ last.arg.file # "none"
    \/ last.flag
    \/ Older(InstalledVersion(app), Packages[Catalog.d].manifest.version)

BothMarked(app) == InstalledVersion(app).ynh /\ TargetVersion.ynh

NeedsUpgrade(app) ==
    HasTarget(app) /\ (last.flag \/ ~BothMarked(app)
                         \/ Older(InstalledVersion(app), TargetVersion))

Same(app, key) ==
    /\ key \in DOMAIN apps[app].settings <=> key \in DOMAIN pre.apps[app].settings
    /\ key \in DOMAIN apps[app].settings =>
           apps[app].settings[key] = pre.apps[app].settings[key]

SameHooks(app) ==
    /\ app \in DOMAIN hooks <=> app \in DOMAIN pre.hooks
    /\ app \in DOMAIN hooks => hooks[app] = pre.hooks[app]

Stamped(app) ==
    /\ "update_time" \in DOMAIN apps[app].settings
    /\ apps[app].settings["update_time"] = now
    /\ apps[app].settings["current_revision"] = TargetRevision

Upgraded(app) ==
    /\ \E e \in Events : /\ IsScript(e, "upgrade", app, {"ok"})
                         /\ IsPostCheck(e + 1, app, {"sane"})
    /\ Stamped(app)
    /\ apps[app].files = TargetSrc
    /\ app \in DOMAIN hooks /\ hooks[app] = TargetSrc

Untouched(app) ==
    /\ \A e \in Events : last.ev[e][3] # app
    /\ app \in DOMAIN apps /\ apps[app] = pre.apps[app]
    /\ SameHooks(app)

(* The upgrade of the app at position i failed: its script, the check      *)
(* after it, or the checks before it.                                      *)
UpgradeFailedAt(i) ==
    /\ last.op = "upgrade"
    /\ i \in DOMAIN Batch
    /\ \/ last.info.failed = i
       \/ \E e \in Events : \/ IsScript(e, "upgrade", Batch[i], {"failed", "raised"})
                            \/ IsPostCheck(e, Batch[i], {"broken"})

UpgradeScriptFailedAt(i) ==
    /\ last.op = "upgrade"
    /\ i \in DOMAIN Batch
    /\ ScriptEnded("upgrade", Batch[i], {"failed", "raised"})

(* C7: a batch upgrade runs its scripts in input order; when the upgrade   *)
(* of the app at position i fails, every app before i that needed an       *)
(* upgrade has been upgraded, and for every app after i no script or check *)
(* ran and record, stored files and hooks are as before the call.          *)
C7_SequentialFailFast ==
    last.op = "upgrade" =>
        /\ \A e1, e2 \in Events :
              e1 < e2 => Position(last.ev[e1][3]) <= Position(last.ev[e2][3])
        /\ \A i \in DOMAIN Batch : UpgradeFailedAt(i) =>
              /\ \A k \in 1..(i - 1) :
                    IF NeedsUpgrade(Batch[k]) THEN Upgraded(Batch[k])
                    ELSE ~ScriptRan("upgrade", Batch[k])
              /\ \A k \in (i + 1)..Len(Batch) : Untouched(Batch[k])

C7_Witness ==
    /\ UpgradeFailedAt(1)
    /\ Len(Batch) = 2
    /\ NeedsUpgrade(Batch[2])
    /\ Untouched(Batch[2])
    /\ ScriptEnded("upgrade", Batch[1], {"failed"})

(* C8 as stated: when the batch aborts because the app at position i       *)
(* failed and later apps remain, the apps reported as not upgraded are     *)
(* exactly those after position i.                                         *)
C8_NotUpgradedAreLaterApps ==
    \A i \in DOMAIN Batch :
        (UpgradeScriptFailedAt(i) /\ i < Len(Batch)) =>
            last.info.not_upgraded_apps = SubSeq(Batch, i + 1, Len(Batch))

C8_Witness ==
    /\ UpgradeScriptFailedAt(1)
    /\ Len(Batch) = 2
    /\ last.info.not_upgraded_apps = Batch

(* C9: for an app the batch reaches with a resolved target, when installed *)
(* and target version both carry the ~ynh marker, installed >= target and  *)
(* force is not set, update_time and current_revision are written, no      *)
(* upgrade script is invoked, stored files and hooks are unchanged, and    *)
(* the batch goes on to the next app.                                      *)
C9_NoOpUpgrade ==
    \A k \in DOMAIN Batch :
        ( /\ last.op = "upgrade"
          /\ k <= Len(last.info.done)
          /\ HasTarget(Batch[k])
          /\ BothMarked(Batch[k])
          /\ ~Older(InstalledVersion(Batch[k]), TargetVersion)
          /\ ~last.flag ) =>
            /\ Stamped(Batch[k])
            /\ ~ScriptRan("upgrade", Batch[k])
            /\ apps[Batch[k]].files = pre.apps[Batch[k]].files
            /\ SameHooks(Batch[k])
            /\ k < Len(Batch) => Len(last.info.done) > k

C9_Witness ==
    /\ last.op = "upgrade"
    /\ ~last.flag
    /\ Len(Batch) = 2
    /\ Len(last.info.done) = 2
    /\ InstalledVersion(Batch[1]) = Packages["v2"].manifest.version
    /\ last.arg.file = "v1"
    /\ pre.apps[Batch[1]].settings["current_revision"] = "r2"
    /\ Stamped(Batch[1])

(* C10: after an upgrade whose script fails no remove script has run, the  *)
(* instance is still installed, its update_time and current_revision are   *)
(* unchanged, and its stored files and hooks are those from before.        *)
C10_FailedUpgradeKeepsInstance ==
    \A i \in DOMAIN Batch :
        UpgradeScriptFailedAt(i) =>
            /\ ~ScriptRan("remove", Batch[i])
            /\ Batch[i] \in DOMAIN apps
            /\ Same(Batch[i], "update_time")
            /\ Same(Batch[i], "current_revision")
            /\ apps[Batch[i]].files = pre.apps[Batch[i]].files
            /\ SameHooks(Batch[i])

C10_Witness ==
    /\ UpgradeScriptFailedAt(1)
    /\ last.arg.file = "v2"
    /\ apps[Batch[1]].files = "v1"
    /\ "update_time" \notin DOMAIN apps[Batch[1]].settings


(* The upgrade script of the app at position i ended well and the check    *)
(* after it found the system broken.                                       *)
UpgradeBrokeSystemAt(i) ==
    /\ last.op = "upgrade"
    /\ i \in DOMAIN Batch
    /\ \E e \in Events : /\ IsScript(e, "upgrade", Batch[i], {"ok"})
                         /\ IsPostCheck(e + 1, Batch[i], {"broken"})

(* C11: when the post check fails after a successful upgrade script, the   *)
(* batch ends in an error, update_time and current_revision of the app are *)
(* not written, its stored files and hooks are not replaced, and no later  *)
(* app is attempted.                                                       *)
C11_UpgradeHealthFailureAborts ==
    \A i \in DOMAIN Batch :
        UpgradeBrokeSystemAt(i) =>
            /\ last.err = "app_action_broke_system"
            /\ Same(Batch[i], "update_time")
            /\ Same(Batch[i], "current_revision")
            /\ apps[Batch[i]].files = pre.apps[Batch[i]].files
            /\ SameHooks(Batch[i])
            /\ \A k \in (i + 1)..Len(Batch) : Untouched(Batch[k])

C11_Witness ==
    /\ UpgradeBrokeSystemAt(1)
    /\ Len(Batch) = 2
    /\ NeedsUpgrade(Batch[1])
    /\ NeedsUpgrade(Batch[2])
    /\ last.err # "ok"

(* The list given to the upgrade names an instance that is not installed. *)
UpgradeNamesMissing ==
    /\ last.op = "upgrade"
    /\ \E i \in DOMAIN last.arg.apps : last.arg.apps[i] \notin DOMAIN pre.apps

(* C12: when the list given to app_upgrade names an instance that is not   *)
(* installed, the call fails with the validation error before any app is   *)
(* processed: no workdir is allocated for a package, no script or check    *)
(* runs, and records, permissions and hooks of every app, those listed     *)
(* before the missing one included, are as before the call.                *)
C12_UpgradeOfMissingInstance ==
    UpgradeNamesMissing =>
        /\ last.err = "app_not_installed"
        /\ last.ev = <<>>
        /\ workdirs = pre.workdirs
        /\ apps = pre.apps
        /\ perms = pre.perms
        /\ hooks = pre.hooks

C12_Witness ==
    /\ UpgradeNamesMissing
    /\ Len(last.arg.apps) = 2
    /\ last.arg.apps[1] \in DOMAIN pre.apps
    /\ last.arg.apps[2] \notin DOMAIN pre.apps
    /\ last.arg.file = "v2"
    /\ pre.apps[last.arg.apps[1]].files = "v1"
    /\ last.err = "app_not_installed"

(***************************************************************************)
(* Remove.                                                                 *)
(***************************************************************************)
(* The call removed an instance that was installed. *)
Removal == last.op = "remove" /\ last.id \in DOMAIN pre.apps

(* C13: app_remove on an installed instance removes the bookkeeping state  *)
(* whatever the remove script does: after a script that exits zero, exits  *)
(* nonzero or raises, no permission of the instance exists, its record is  *)
(* deleted and the workdir of the call is removed.                         *)
C13_RemoveAlwaysCleansUp ==
    Removal =>
        /\ ScriptRan("remove", last.id)
        /\ Absent(last.id)
        /\ last.info.dir \notin DOMAIN workdirs

C13_Witness ==
    /\ Removal
    /\ ScriptEnded("remove", last.id, {"raised"})
    /\ Cardinality({p \in DOMAIN pre.perms : startswith(p, last.id \o <<".">>)}) = 2
    /\ Absent(last.id)

(* C14: app_remove on an installed instance ends with the post check, made *)
(* after record and permissions are deleted, and ends in an error exactly  *)
(* when that check finds the system broken; a remove script that fails     *)
(* does not make the call fail.                                            *)
C14_RemoveEndsWithHealthCheck ==
    Removal =>
        /\ Len(last.ev) > 0
        /\ IsPostCheck(Len(last.ev), last.id, {"sane", "broken"})
        /\ last.err # "ok" <=> IsPostCheck(Len(last.ev), last.id, {"broken"})
        /\ IsPostCheck(Len(last.ev), last.id, {"broken"}) => Absent(last.id)

C14_Witness ==
    /\ Removal
    /\ ScriptEnded("remove", last.id, {"failed"})
    /\ IsPostCheck(Len(last.ev), last.id, {"sane"})
    /\ last.err = "ok"

(***************************************************************************)
(* Change-url.                                                             *)
(***************************************************************************)
(* The change_url script of the call ran and exited nonzero. *)
ChangeUrlFailed ==
    last.op = "change_url" /\ ScriptEnded("change_url", last.id, {"failed"})

ProxyRegenerated == \E e \in Events : last.ev[e][1] = "ssowatconf"

(* C15: when the change_url script exits nonzero, domain and path of the   *)
(* instance are their values from before the call in normal form, the      *)
(* proxy configuration is not regenerated, and nothing else is rolled      *)
(* back: the other settings, the stored files and the permissions are as   *)
(* before the call.                                                        *)
C15_ChangeUrlFailureRestores ==
    ChangeUrlFailed =>
        LET old == pre.apps[last.id].settings
            new == apps[last.id].settings
        IN /\ new["domain"] = normalize_domain(old["domain"])
           /\ new["path"] = <<"/">> \o strip(old["path"], "/")
           /\ DOMAIN new = DOMAIN old
           /\ \A k \in DOMAIN old \ {"domain", "path"} : new[k] = old[k]
           /\ apps[last.id].files = pre.apps[last.id].files
           /\ perms = pre.perms
           /\ ~ProxyRegenerated
           /\ ~ScriptRan("remove", last.id)

C15_Witness ==
    /\ ChangeUrlFailed
    /\ pre.apps[last.id].settings["path"] = <<"/", "b", "/">>
    /\ apps[last.id].settings["path"] = <<"/", "b">>
    /\ last.arg.target.domain = <<"d2">>

(* C16 as stated: when the change_url script exits nonzero, the call ends  *)
(* in an error.                                                            *)
C16_ChangeUrlFailureIsAnError ==
    ChangeUrlFailed => last.err # "ok"

C16_Witness ==
    /\ ChangeUrlFailed
    /\ last.err = "ok"
    /\ \E e \in Events : last.ev[e][1] = "logged_error"

(***************************************************************************)
(* Conflict Resolver.                                                      *)
(***************************************************************************)
D1 == <<"d1">>

NEIGHBOUR == <<"o">>

P_BC == <<"/", "b", "/", "c">>

(* Candidate paths: the root, a path, a path nested under it, a sibling    *)
(* that shares its leading characters, an unrelated one, and one that is   *)
(* not in normal form.                                                     *)
SamplePaths == {ROOT, P_B, P_BC, P_B2, <<"/", "c">>, <<"/", "b", "/">>}

(* A platform whose only registration is that of one instance at a         *)
(* location.                                                               *)
OnlyAt(domain, path) ==
    [apps |-> DictSet(EmptyDict, NEIGHBOUR,
                      [settings |-> [id |-> NEIGHBOUR, domain |-> domain, path |-> path],
                       files |-> "web"]),
     perms |-> DictSet(EmptyDict, main_permission(NEIGHBOUR),
                       [url |-> ROOT, additional_urls |-> <<>>,
                        allowed |-> {"all_users"}, show_tile |-> TRUE]),
     hooks |-> EmptyDict,
     workdirs |-> EmptyDict]

Conflicts(s, domain, path, ignore_app) ==
    _get_conflicting_apps(s, domain, path, ignore_app).conflicts

(* Path a lies under path b, at a '/' boundary. *)
Nested(a, b) ==
    LET na == normalize_path(a)
        nb == normalize_path(b)
    IN na # nb /\ (nb = ROOT \/ startswith(na, nb \o <<"/">>))

Overlap(a, b) ==
    normalize_path(a) = normalize_path(b) \/ Nested(a, b) \/ Nested(b, a)

(* The platform is between two calls. Every store the platform reaches is  *)
(* the store of such a state, since Return leaves the store as it is.      *)
Idle == last = NoCall

LocationTaken == {"app_location_unavailable", "app_full_domain_unavailable"}

(* C17: the conflicts found with an instance to ignore never name that     *)
(* instance and are the conflicts found without it minus its own; and a    *)
(* change-url refused because the location is taken was refused for the    *)
(* registration of another instance.                                       *)
C17_IgnoredInstanceNeverConflicts ==
    /\ Idle => \A d \in Domains, p \in SamplePaths :
          LET all == Conflicts(Cur, d, p, NOBODY)
          IN \A app \in DOMAIN apps :
                LET others == Conflicts(Cur, d, p, app)
                IN /\ \A e \in others : e.id # app
                   /\ others = {e \in all : e.id # app}
    /\ (last.op = "change_url" /\ last.err \in LocationTaken) =>
          \E e \in Conflicts(pre, last.arg.target.domain, last.arg.target.path, NOBODY) :
              e.id # last.id

(* A change-url to a location that overlaps the instance's own, done. *)
C17_Witness ==
    /\ last.op = "change_url"
    /\ last.err = "ok"
    /\ ScriptEnded("change_url", last.id, {"ok"})
    /\ \E e \in Conflicts(pre, last.arg.target.domain, last.arg.target.path, NOBODY) :
          e.id = last.id
    /\ apps[last.id].settings["path"] = normalize_path(last.arg.target.path)
    /\ apps[last.id].settings["path"] # pre.apps[last.id].settings["path"]

(* C18: candidate a conflicts with registered b exactly when candidate b   *)
(* conflicts with registered a; a path and a path nested under it conflict *)
(* in both directions, and equal paths conflict. The same holds between    *)
(* every candidate and every registration of the running platform.         *)
C18_ConflictIsSymmetric ==
    /\ Idle => \A a, b \in SamplePaths :
          /\ (Conflicts(OnlyAt(D1, b), D1, a, NOBODY) # {})
                <=> (Conflicts(OnlyAt(D1, a), D1, b, NOBODY) # {})
          /\ Overlap(a, b) => Conflicts(OnlyAt(D1, b), D1, a, NOBODY) # {}
    /\ Idle => \A e \in app_map(Cur), c \in SamplePaths :
          /\ (e \in Conflicts(Cur, e.domain, c, NOBODY))
                <=> (Conflicts(OnlyAt(e.domain, c), e.domain, e.path, NOBODY) # {})
          /\ Overlap(c, e.path) => e \in Conflicts(Cur, e.domain, c, NOBODY)

(* An install at the root of a domain refused for an instance under it. *)
C18_Witness ==
    /\ last.op = "install"
    /\ last.err = "app_location_unavailable"
    /\ last.arg.answers.path = ROOT
    /\ \E e \in app_map(pre) : e.domain = last.arg.answers.domain /\ e.path = P_B

(* C19 as stated: a conflict is reported only between paths that are equal *)
(* or nested one under the other at a '/' boundary; an install at a        *)
(* sibling path that shares leading characters is not refused.             *)
C19_ConflictOnlyAtSegmentBoundary ==
    /\ Idle => \A e \in app_map(Cur), c \in SamplePaths :
          e \in Conflicts(Cur, e.domain, c, NOBODY) => Overlap(c, e.path)
    /\ (last.op = "install" /\ last.err = "app_location_unavailable") =>
          \E e \in app_map(pre) :
              /\ e.domain = normalize_domain(last.arg.answers.domain)
              /\ Overlap(last.arg.answers.path, e.path)

(* An install at /b2 refused although the domain has only /b. *)
C19_Witness ==
    /\ last.op = "install"
    /\ last.err = "app_location_unavailable"
    /\ last.arg.answers.path = P_B2
    /\ \E e \in app_map(pre) : e.domain = last.arg.answers.domain
    /\ \A e \in app_map(pre) : e.domain = last.arg.answers.domain => e.path = P_B

OnDomain(s, domain) == {e \in app_map(s) : e.domain = domain}

FullDomainInstall == last.op = "install" /\ last.arg.src = "full"

(* C20: the full-domain validation of a domain fails exactly when some     *)
(* instance has a registration on that domain, at the root or under it;    *)
(* an install of a full-domain package that reaches the validation is      *)
(* refused exactly in that case.                                           *)
C20_FullDomainNeedsEmptyDomain ==
    /\ Idle => \A d \in Domains :
          (_validate_webpath_requirement(Cur, [domain |-> d], "full_domain", NOBODY).err
              = "app_full_domain_unavailable") <=> (OnDomain(Cur, d) # {})
    /\ (FullDomainInstall /\ last.ev # <<>> /\ last.ev[1] = SaneEv("pre", BASE, TRUE)) =>
          ((last.err = "app_full_domain_unavailable")
              <=> (OnDomain(pre, normalize_domain(last.arg.answers.domain)) # {}))

(* C20 as stated: the full-domain validation of a domain fails exactly     *)
(* when some instance is registered at the root of that domain.            *)
C20_FullDomainFailsOnlyOnRoot ==
    /\ Idle => \A d \in Domains :
          (_validate_webpath_requirement(Cur, [domain |-> d], "full_domain", NOBODY).err
              = "app_full_domain_unavailable")
          <=> (\E e \in OnDomain(Cur, d) : e.path = ROOT)
    /\ (FullDomainInstall /\ last.err = "app_full_domain_unavailable") =>
          \E e \in OnDomain(pre, normalize_domain(last.arg.answers.domain)) :
              e.path = ROOT

(* A full-domain install refused on a domain whose root is free. *)
C20_Witness ==
    /\ FullDomainInstall
    /\ last.err = "app_full_domain_unavailable"
    /\ OnDomain(pre, last.arg.answers.domain) # {}
    /\ \A e \in OnDomain(pre, last.arg.answers.domain) : e.path = P_B

(***************************************************************************)
(* Location validation as a check.                                         *)
(***************************************************************************)
NOPE == <<"nope">>

(* The validation of a domain and path answer on the running platform. *)
Validate(domain, path) ==
    _validate_webpath_requirement(Cur, [domain |-> domain, path |-> path],
                                  "domain_and_path", NOBODY)

(* The store differs from the running platform's at most by stored paths   *)
(* rewritten to normal form.                                               *)
OnlyNormalized(s) ==
    /\ s.perms = perms
    /\ s.hooks = hooks
    /\ s.workdirs = workdirs
    /\ DOMAIN s.apps = DOMAIN apps
    /\ \A a \in DOMAIN apps : s.apps[a] = apps[a] \/ PathRewritten(apps[a], s.apps[a])

LocationRefused ==
    /\ last.op \in {"install", "change_url"}
    /\ last.err \in LocationTaken \cup {"domain_unknown"}

(* C21, amended: a location validation, whatever its outcome, leaves every *)
(* permission unchanged and every settings record unchanged but for a      *)
(* stored path that was not in normal form, which it rewrites; with an     *)
(* unknown domain nothing is read and nothing changes.                     *)
C21_ValidationOnlyRepairsPaths ==
    /\ Idle => \A domain \in Domains \cup {NOPE}, path \in {P_B, P_B2} :
          LET v == Validate(domain, path)
          IN /\ OnlyNormalized(v.s)
             /\ v.err = "domain_unknown" => v.s = Cur
             /\ v.err # "domain_unknown" =>
                   \A a \in DOMAIN apps : ~path_needs_fix(v.s.apps[a].settings)
    /\ LocationRefused =>
          /\ perms = pre.perms
          /\ DOMAIN apps = DOMAIN pre.apps
          /\ \A a \in DOMAIN apps :
                apps[a] = pre.apps[a] \/ PathRewritten(pre.apps[a], apps[a])

(* C21 as stated: a location validation, whatever its outcome, leaves      *)
(* every settings record and every permission as they were.                *)
C21_ValidationIsPure ==
    /\ Idle => \A domain \in Domains \cup {NOPE}, path \in {P_B, P_B2} :
          Validate(domain, path).s = Cur
    /\ LocationRefused => (apps = pre.apps /\ perms = pre.perms)

(* A change-url refused for the location of another instance, whose stored *)
(* path the validation rewrote.                                            *)
C21_Witness ==
    /\ last.op = "change_url"
    /\ last.err = "app_location_unavailable"
    /\ \E a \in DOMAIN apps \ {last.id} : PathRewritten(pre.apps[a], apps[a])

(***************************************************************************)
(* Instance identity.                                                      *)
(***************************************************************************)
(* C22: the name generated for a base id without instance suffix and a     *)
(* number n >= 1 parses to that base id and n; a name that ends in __0, in *)
(* a number with a leading zero or in digits followed by other characters  *)
(* is not stripped and parses to the whole name and 1.                     *)
C22_ParseRoundTrip ==
    /\ last.op = "parse" =>
          /\ last.info.parsed = <<last.arg.base, last.arg.n>>
          /\ last.info.name = last.arg.base <=> last.arg.n = 1
    /\ last.op = "parse_odd" => last.info.parsed = <<last.arg, 1>>

(* A two-digit number after a base id that itself holds the separator. *)
C22_Witness ==
    /\ last.op = "parse"
    /\ last.arg = [base |-> <<"a", "_", "_", "2", "b">>, n |-> 10]
    /\ last.info.name = <<"a", "_", "_", "2", "b", "_", "_", "1", "0">>
    /\ last.info.parsed = <<<<"a", "_", "_", "2", "b">>, 10>>

(* C23: the next instance number is a positive integer that no sibling     *)
(* holds, and every smaller positive integer is held by a sibling.         *)
C23_NextNumberIsSmallestFree ==
    last.op = "next_number" =>
        /\ last.info.number >= 1
        /\ last.info.number \notin last.arg
        /\ \A j \in 1..(last.info.number - 1) : j \in last.arg

(* Instances 1, 2 and 4: the next number is 3, not 4. *)
C23_Witness ==
    /\ last.op = "next_number"
    /\ last.arg = {1, 2, 4}
    /\ last.info.number = 3

(* The install created an instance. *)
InstallDone == last.op = "install" /\ last.err = "ok"

(* The name of instance number n of the app of the packages. *)
NameOf(n) == IF n = 1 THEN BASE ELSE BASE \o SEP \o str(n)

(* C24: an install that succeeds creates an instance whose id no installed *)
(* instance had, and leaves the installed ones in place; the id is the     *)
(* base id if that is free, otherwise base__N for the smallest N >= 2 not  *)
(* in use, so a number freed by a removal is given again.                  *)
C24_InstallReusesFreedNumbers ==
    InstallDone =>
        /\ last.id \notin DOMAIN pre.apps
        /\ DOMAIN apps = DOMAIN pre.apps \cup {last.id}
        /\ \A a \in DOMAIN pre.apps : apps[a] = pre.apps[a]
        /\ \E n \in 1..(Cardinality(DOMAIN pre.apps) + 1) :
              /\ last.id = NameOf(n)
              /\ \A j \in 1..(n - 1) : NameOf(j) \in DOMAIN pre.apps

(* Only instance 2 is left after a removal: the install is given number 1. *)
C24_Witness ==
    /\ InstallDone
    /\ DOMAIN pre.apps = {NameOf(2)}
    /\ last.id = BASE
    /\ DOMAIN apps = {BASE, NameOf(2)}

(* The package installed declares no multi_instance, and an instance of    *)
(* its app is installed.                                                   *)
SecondInstanceOfSingle ==
    /\ last.op = "install"
    /\ last.arg.src = "solo"
    /\ \E a \in DOMAIN pre.apps :
          _parse_app_instance_name(a)[1] = Packages["solo"].manifest.id

(* C25 as stated: an install of a package that does not declare            *)
(* multi_instance, while an instance of its app is installed, ends in the  *)
(* already-installed error (or in the error of the check that precedes it) *)
(* and creates no instance.                                                *)
C25_SecondInstanceNeedsMultiInstance ==
    SecondInstanceOfSingle =>
        /\ last.err \in {"app_already_installed",
                         "app_action_cannot_be_ran_because_required_services_down"}
        /\ DOMAIN apps = DOMAIN pre.apps

(* Instance 2 is installed and number 1 is free: the package without       *)
(* multi_instance is installed as a second instance.                       *)
C25_Witness ==
    /\ SecondInstanceOfSingle
    /\ InstallDone
    /\ DOMAIN pre.apps = {NameOf(2)}
    /\ DOMAIN apps = {BASE, NameOf(2)}
    /\ apps[BASE].files = "solo"

(***************************************************************************)
(* Version Classifier.                                                     *)
(***************************************************************************)
(* The order of two versions that carry the marker. *)
Before(a, b) == a.upstream < b.upstream \/ (a.upstream = b.upstream /\ a.pkg < b.pkg)

Classified == last.op = "classify" /\ last.arg.current.ynh /\ last.arg.new.ynh

(* C26: with the marker on both versions, current >= target without force  *)
(* is a no-op; with force, current > target is a forced downgrade and      *)
(* current = target a forced upgrade; current < target is an upgrade of    *)
(* the package when the upstream parts are equal, else of the app when the *)
(* packaging revisions are equal, else a full upgrade.                     *)
C26_UpgradeClassification ==
    Classified =>
        LET c == last.arg.current
            n == last.arg.new
            type == last.info.type
        IN /\ (~Before(c, n) /\ ~last.arg.force) => type = "NO_OP"
           /\ (Before(n, c) /\ last.arg.force) => type = "DOWNGRADE_FORCED"
           /\ (c = n /\ last.arg.force) => type = "UPGRADE_FORCED"
           /\ (Before(c, n) /\ c.upstream = n.upstream) => type = "UPGRADE_PACKAGE"
           /\ (Before(c, n) /\ c.upstream # n.upstream /\ c.pkg = n.pkg) =>
                 type = "UPGRADE_APP"
           /\ (Before(c, n) /\ c.upstream # n.upstream /\ c.pkg # n.pkg) =>
                 type = "UPGRADE_FULL"

(* A newer upstream with the same packaging revision, forced. *)
C26_Witness ==
    /\ Classified
    /\ last.arg.force
    /\ last.arg.current = [ynh |-> TRUE, upstream |-> 1, pkg |-> 2]
    /\ last.arg.new = [ynh |-> TRUE, upstream |-> 2, pkg |-> 2]
    /\ last.info.type = "UPGRADE_APP"

(* C27, amended: a current version strictly greater than the target, both  *)
(* with the marker, is a no-op without force and a forced downgrade only   *)
(* with force.                                                             *)
C27_DowngradeNeedsForce ==
    (Classified /\ Before(last.arg.new, last.arg.current)) =>
        last.info.type = IF last.arg.force THEN "DOWNGRADE_FORCED" ELSE "NO_OP"

(* C27 as stated: a current version strictly greater than the target, both *)
(* with the marker, without force, is a forced downgrade.                  *)
C27_UnforcedDowngradeIsForced ==
    (Classified /\ Before(last.arg.new, last.arg.current) /\ ~last.arg.force) =>
        last.info.type = "DOWNGRADE_FORCED"

(* 2.0~ynh1 installed, 1.0~ynh1 given, no force. *)
C27_Witness ==
    /\ Classified
    /\ ~last.arg.force
    /\ last.arg.current = [ynh |-> TRUE, upstream |-> 2, pkg |-> 1]
    /\ last.arg.new = [ynh |-> TRUE, upstream |-> 1, pkg |-> 1]
    /\ last.info.type = "NO_OP"

(* The local update time: update_time, else install_time, else 0. *)
LocalTime(settings) ==
    IF "update_time" \in DOMAIN settings THEN settings["update_time"]
    ELSE IF "install_time" \in DOMAIN settings THEN settings["install_time"]
    ELSE 0

(* C29: upgradability is url_required without a catalog entry; else        *)
(* bad_quality when the level is not an integer >= 5 or the state is not   *)
(* working; else, with the marker on both versions, yes exactly when the   *)
(* installed version is before the catalog's; else url_required when the   *)
(* entry lacks the lastUpdate or the git reference; else yes exactly when  *)
(* the lastUpdate is greater than the local update time.                   *)
C29_UpgradablePrecedence ==
    last.op = "upgradable" =>
        LET e == last.arg.from_catalog
            v == last.arg.version
            good == e.level.is_int /\ e.level.n >= 5 /\ e.state = "working"
            marked == v.ynh /\ e.version.ynh
            dated == e.lastUpdate # 0 /\ e.git
        IN last.info.upgradable =
             IF ~e.found THEN "url_required"
             ELSE IF ~good THEN "bad_quality"
             ELSE IF marked THEN (IF Before(v, e.version) THEN "yes" ELSE "no")
             ELSE IF ~dated THEN "url_required"
             ELSE IF e.lastUpdate > LocalTime(last.arg.settings) THEN "yes"
             ELSE "no"

(* No marker on the installed version, no update time, and a catalog entry *)
(* updated after the install.                                              *)
C29_Witness ==
    /\ last.op = "upgradable"
    /\ last.arg.from_catalog.found
    /\ ~last.arg.version.ynh
    /\ last.arg.from_catalog.lastUpdate = 2
    /\ last.arg.settings = [id |-> BASE, install_time |-> 1]
    /\ last.info.upgradable = "yes"

(* The installed version of the app or the version upgraded to lacks the   *)
(* marker.                                                                 *)
Unmarked(app) == ~InstalledVersion(app).ynh \/ ~TargetVersion.ynh

(* C28: a pair of versions of which one lacks the marker is classified as  *)
(* unknown; and in an upgrade, an app whose installed or target version    *)
(* lacks the marker is never passed over as up to date once its source is  *)
(* resolved: when the source is a file, or the catalog's with the app not  *)
(* skipped before the fetch, the upgrade script is invoked unless a check  *)
(* before it rejects the upgrade, even with equal versions and no force.   *)
C28_UnmarkedVersionsAlwaysUpgrade ==
    /\ (last.op = "classify" /\ ~(last.arg.current.ynh /\ last.arg.new.ynh)) =>
          last.info.type = "UNKNOWN"
    /\ last.op = "upgrade" =>
          \A i \in DOMAIN last.info.done :
              Unmarked(Batch[i]) =>
                  /\ last.info.done[i] # "no_op"
                  /\ last.arg.file # "none" =>
                        last.info.done[i] \in {"rejected", "upgraded", "failed"}
                  /\ last.info.done[i] \in {"upgraded", "failed"} =>
                        ScriptRan("upgrade", Batch[i])

(* The installed package given again as a file, without force. *)
C28_Witness ==
    /\ last.op = "upgrade"
    /\ last.arg.file = "old"
    /\ ~last.flag
    /\ last.info.done = <<"upgraded">>
    /\ pre.apps[Batch[1]].files = "old"
    /\ ScriptEnded("upgrade", Batch[1], {"ok"})

(***************************************************************************)
(* Settings: a get after a set or a delete.                                *)
(***************************************************************************)
SettingDone == last.op = "setting" /\ last.err = "ok"

(* A key whose value is kept in the record as it was given. *)
RegularKey(key) ==
    /\ ~is_legacy_permission_setting(key)
    /\ key \notin {"redirected_urls", "redirected_regex"}

(* What a get of the key answers in the current state. *)
GetNow(key) == app_setting(Cur, last.id, key, <<>>, "get").info

ReadBefore == _get_app_settings(pre, last.id).settings

ReadNow == _get_app_settings(Cur, last.id).settings

(* The value as a read gives it back. *)
AsRead(key, value) ==
    IF key = "path" /\ path_needs_fix(DictSet(EmptyDict, "path", value))
    THEN normalize_path(value)
    ELSE value

questions_with_default ==
    {<<"domain", "domain">>, <<"path", "path">>, <<"password", "password">>,
     <<"user", "admin">>, <<"boolean", "is_public">>}

(* m18n.n("app_manifest_%s_ask_%s" % (script_name, name)) *)
ask_message(script_name, name) == <<"app_manifest", script_name, "ask", name>>

(* arg.get("type") *)
get_type(arg) == IF Has(arg, "type") THEN arg["type"] ELSE "None"

(* Lines 1985-2003: one question of the install script. *)
set_default_ask_question(script_name, arg) ==
    IF ~Has(arg, "name") THEN [err |-> "KeyError", arg |-> arg]
    ELSE
    LET a1 == IF <<get_type(arg), arg["name"]>> \in questions_with_default
              THEN DictSet(arg, "ask", ask_message(script_name, arg["name"]))
              ELSE arg
        a2 == IF Has(a1, "example") THEN DictDel(a1, "example") ELSE a1
    IN IF get_type(arg) \notin {"domain", "user", "password"}
       THEN [err |-> "ok", arg |-> a1]
       ELSE IF ~Has(a2, "default") THEN [err |-> "ok", arg |-> a2]
       ELSE IF ~Has(a2, "domain") THEN [err |-> "KeyError", arg |-> a2]
       ELSE [err |-> "ok", arg |-> DictDel(a2, "domain")]

(* Lines 1983-2003: the questions of one script, in order. *)
RECURSIVE set_default_ask_list(_, _)
set_default_ask_list(script_name, arg_list) ==
    IF arg_list = <<>> THEN [err |-> "ok", arg_list |-> <<>>]
    ELSE LET first == set_default_ask_question(script_name, Head(arg_list))
             rest == set_default_ask_list(script_name, Tail(arg_list))
         IN IF first.err # "ok"
            THEN [err |-> first.err, arg_list |-> <<first.arg>> \o Tail(arg_list)]
            ELSE [err |-> rest.err, arg_list |-> <<first.arg>> \o rest.arg_list]

(* Lines 1948-2005: only the questions of the install script are touched. *)
_set_default_ask_questions(arguments) ==
    IF ~Has(arguments, "install") THEN [err |-> "ok", arguments |-> arguments]
    ELSE LET r == set_default_ask_list("install", arguments["install"])
         IN [err |-> r.err, arguments |-> DictSet(arguments, "install", r.arg_list)]

(* Questions with and without each of the fields the function reads. *)
WithField(arg, present, key, value) == IF present THEN DictSet(arg, key, value) ELSE arg

QuestionTypes == {"domain", "user", "password", "path", "None"}

QuestionNames == {"domain", "admin", "x", "None"}

Questions ==
    {WithField(WithField(WithField(WithField(WithField(EmptyDict,
        type # "None", "type", type),
        name # "None", "name", name),
        example, "example", "e"),
        default, "default", "v"),
        domain, "domain", "w") :
     type \in QuestionTypes, name \in QuestionNames,
     example \in BOOLEAN, default \in BOOLEAN, domain \in BOOLEAN}

PathQuestion == DictSet(DictSet(EmptyDict, "name", "path"), "type", "path")

QuestionLists ==
    {<<q>> : q \in Questions} \cup {<<PathQuestion, q>> : q \in Questions}

Manifests ==
    {DictSet(EmptyDict, "install", l) : l \in QuestionLists}
    \cup {DictSet(EmptyDict, "upgrade", l) : l \in QuestionLists}

Normalize ==
    /\ last = NoCall
    /\ \E arguments \in Manifests :
         Answer("normalize", arguments, _set_default_ask_questions(arguments))

NextQuestions == Normalize \/ Return

SpecQuestions == Init /\ [][NextQuestions]_vars

(* The install questions that must be supplied explicitly. *)
IdentityQuestions(arguments) ==
    IF Has(arguments, "install")
    THEN {arguments["install"][i] : i \in
            {j \in DOMAIN arguments["install"] :
                get_type(arguments["install"][j]) \in {"domain", "user", "password"}}}
    ELSE {}

(* C31: normalization ends without error, and afterwards no install        *)
(* question of type domain, user or password has an example or a default.  *)
C31_IdentityQuestionsCarryNoPrefill ==
    last.op = "normalize"
    => /\ last.info.err = "ok"
       /\ \A q \in IdentityQuestions(last.info.arguments) :
            ~Has(q, "example") /\ ~Has(q, "default")

(* A domain question with a default and no "domain" field: the call ends   *)
(* with a KeyError and the default is still there.                         *)
C31_Witness ==
    /\ last.op = "normalize"
    /\ Has(last.arg, "install")
    /\ \E q \in IdentityQuestions(last.arg) :
         Has(q, "name") /\ Has(q, "default") /\ ~Has(q, "domain")
    /\ last.info.err = "KeyError"
    /\ \E q \in IdentityQuestions(last.info.arguments) : Has(q, "default")

(***************************************************************************)
(* The scratch workdir after a failed script.                              *)
(***************************************************************************)
(* The workdirs that the call allocated and did not remove. *)
LeftBehind == DOMAIN workdirs \ DOMAIN pre.workdirs

(* C32: when the upgrade script fails, when the check after it fails, and  *)
(* when the change_url script fails, no workdir allocated by the call is   *)
(* left when the call ends.                                                *)
C32_FailedScriptReleasesWorkdir ==
    ((\E i \in DOMAIN Batch : UpgradeScriptFailedAt(i) \/ UpgradeBrokeSystemAt(i))
     \/ ChangeUrlFailed)
    => LeftBehind = {}

(* An upgrade of one instance whose script failed, with its workdir left. *)
C32_Witness ==
    /\ last.op = "upgrade"
    /\ Len(Batch) = 1
    /\ ScriptEnded("upgrade", Batch[1], {"failed"})
    /\ pre.workdirs = EmptyDict
    /\ Cardinality(DOMAIN workdirs) = 1

(* A change_url whose script failed, with its workdir left. *)
C32_ChangeUrlLeavesWorkdir ==
    ChangeUrlFailed /\ pre.workdirs = EmptyDict /\ Cardinality(DOMAIN workdirs) = 1

(***************************************************************************)
(* A Script Runner call that raises.                                       *)
(***************************************************************************)
(* The lifecycle script of the call ended with an exception of the runner. *)
RunnerRaised(name) ==
    /\ last.op = name
    /\ \E e \in Events : \E app \in InstanceNames :
         IsScript(e, name, app, {"raised"})

(* The web location the record of the instance holds. *)
LocationOf(s, app) ==
    [k \in {"domain", "path"} \cap DOMAIN s.apps[app].settings |-> s.apps[app].settings[k]]

(* C33: an exception of the Script Runner during the script of install,    *)
(* upgrade, remove or change_url does not escape: the instance is rolled   *)
(* back, the upgrade aborted, the removal completed or the old location    *)
(* restored, and no workdir of the call is left.                           *)
C33_RunnerExceptionIsHandled ==
    /\ (RunnerRaised("install") /\ ~last.flag) => Absent(last.id) /\ LeftBehind = {}
    /\ RunnerRaised("upgrade") => last.info.failed \in DOMAIN Batch /\ LeftBehind = {}
    /\ RunnerRaised("remove") => Absent(last.id) /\ LeftBehind = {}
    /\ RunnerRaised("change_url")
       => /\ last.err # "script_exception"
          /\ LocationOf(Cur, last.id) = LocationOf(pre, last.id)
          /\ LeftBehind = {}

(* A change_url whose runner raised after the script wrote the new         *)
(* location: the exception leaves the call, the new location stays in the  *)
(* record and the workdir stays in the scratch root.                       *)
C33_Witness ==
    /\ RunnerRaised("change_url")
    /\ last.err = "script_exception"
    /\ LocationOf(Cur, last.id) # LocationOf(pre, last.id)
    /\ LeftBehind # {}

(* What the code does do when the runner raises during install or remove.  *)
C33_InstallAndRemoveCleanUp ==
    /\ (RunnerRaised("install") /\ ~last.flag) => Absent(last.id) /\ LeftBehind = {}
    /\ RunnerRaised("remove") => Absent(last.id) /\ LeftBehind = {}

(***************************************************************************)
(* The sweep of the scratch root.                                          *)
(***************************************************************************)
(* The call made a workdir: an install that fetched, a removal of an       *)
(* installed instance.                                                     *)
Allocated == last.op \in {"install", "remove"} /\ DOMAIN last.info = {"dir"}

(* The directories that were in the scratch root before the call and were  *)
(* last modified more than twelve hours before it.                         *)
Stale == {d \in DOMAIN pre.workdirs : pre.workdirs[d].mtime < now - WORKDIR_TTL}

(* C34: a call that allocates a workdir deletes every directory of the     *)
(* scratch root modified more than twelve hours before, and no call        *)
(* deletes or touches one that is twelve hours old or younger.             *)
C34_SweepDeletesOnlyStaleWorkdirs ==
    /\ Allocated
       => \A d \in Stale : d \in DOMAIN workdirs => workdirs[d].mtime = now
    /\ last.op # "none"
       => \A d \in DOMAIN pre.workdirs \ Stale :
            d \in DOMAIN workdirs /\ workdirs[d] = pre.workdirs[d]

(* A directory exactly twelve hours old that an allocation left in place. *)
C34_Witness ==
    /\ Allocated
    /\ \E d \in DOMAIN pre.workdirs :
         /\ pre.workdirs[d].mtime = now - WORKDIR_TTL
         /\ d \in DOMAIN workdirs
         /\ workdirs[d] = pre.workdirs[d]

(* A directory a second older than that, deleted by an allocation. *)
C34_StaleIsSwept ==
    /\ Allocated
    /\ \E d \in DOMAIN pre.workdirs :
         /\ pre.workdirs[d].mtime = now - WORKDIR_TTL - 1
         /\ d \notin DOMAIN workdirs

(***************************************************************************)
(* Uniqueness of web locations.                                            *)
(***************************************************************************)
(* The locations the records of the installed instances hold. *)
RecordedLocations ==
    {[domain |-> apps[a].settings["domain"], path |-> apps[a].settings["path"], id |-> a] :
        a \in {x \in DOMAIN apps : /\ Has(apps[x].settings, "domain")
                                   /\ Has(apps[x].settings, "path")}}

(* No two entries of different instances on one domain with equal paths or *)
(* with one path a prefix of the other.                                    *)
Apart(entries) ==
    \A e1, e2 \in entries :
        (e1.id # e2.id /\ e1.domain = e2.domain)
        => /\ e1.path # e2.path
           /\ ~startswith(e1.path, e2.path)
           /\ ~startswith(e2.path, e1.path)

(* C36: after any sequence of installs, registrations, moves and removals  *)
(* of web apps and full-domain apps, no two installed instances hold       *)
(* locations on one domain of which one path equals or is a prefix of the  *)
(* other, in the map of registered locations and in the records.           *)
C36_WebLocationsAreUnique ==
    Idle => Apart(app_map(Cur)) /\ Apart(RecordedLocations)

(* Two instances on one domain, the second booked by a registration made   *)
(* after its install, and a third location refused because it is nested.   *)
C36_Witness ==
    /\ last.op = "register_url"
    /\ last.err = "ok"
    /\ \E e1, e2 \in app_map(Cur) :
         e1.id # e2.id /\ e1.id = last.id /\ e1.domain = e2.domain
    /\ Apart(app_map(Cur))

(***************************************************************************)
(* The scratch workdir on the exits before the script.                     *)
(***************************************************************************)
(* The install was refused after the package was fetched. *)
InstallRefused ==
    /\ last.op = "install"
    /\ last.err \in {"app_id_invalid", "app_requirements_unmeet",
                     "app_action_cannot_be_ran_because_required_services_down",
                     "app_already_installed", "domain_unknown",
                     "app_location_unavailable", "app_full_domain_unavailable"}

(* The upgrade fetched a target and skipped the instance or refused it. *)
UpgradeSkippedOrRefused ==
    /\ last.op = "upgrade"
    /\ \E k \in DOMAIN last.info.done : last.info.done[k] \in {"no_op", "rejected"}

(* C37: when an install is refused after the fetch, and when an upgrade    *)
(* skips an instance as up to date or refuses it before the script, no     *)
(* workdir allocated by the call is left when the call ends.               *)
C37_EarlyExitReleasesWorkdir ==
    (InstallRefused \/ UpgradeSkippedOrRefused) => LeftBehind = {}

(* An upgrade that found its one instance up to date and left the fetched  *)
(* package in the scratch root.                                            *)
C37_Witness ==
    /\ last.op = "upgrade"
    /\ last.err = "ok"
    /\ last.info.done = <<"no_op">>
    /\ pre.workdirs = EmptyDict
    /\ Cardinality(DOMAIN workdirs) = 1

(* An install refused for its location, with the fetched package left. *)
C37_RefusedInstallLeavesWorkdir ==
    /\ last.op = "install"
    /\ last.err = "app_location_unavailable"
    /\ pre.workdirs = EmptyDict
    /\ Cardinality(DOMAIN workdirs) = 1

(***************************************************************************)
(* The normal form of the path a read returns.                             *)
(***************************************************************************)
(* Starts with "/" and ends with "/" only when it is "/". *)
NormalPath(p) == Len(p) > 0 /\ p[1] = "/" /\ (p = ROOT \/ p[Len(p)] # "/")

(* The path is the core, with slashes before and after it and none at the  *)
(* ends of the core.                                                       *)
StripsTo(path, core) ==
    /\ Len(core) > 0 => core[1] # "/" /\ core[Len(core)] # "/"
    /\ \E i \in 0..Len(path) :
         /\ i + Len(core) <= Len(path)
         /\ SubSeq(path, i + 1, i + Len(core)) = core
         /\ \A k \in 1..Len(path) : (k <= i \/ k > i + Len(core)) => path[k] = "/"

(* C38: a record returned by a read has no path or a path in normal form;  *)
(* a stored path not in normal form is rewritten by the read to "/" and    *)
(* the path without its leading and trailing slashes, a path in normal     *)
(* form is left as it is, and a record without a path stays without one.   *)
C38_ReadReturnsNormalPath ==
    last.op = "read"
    => /\ Has(last.info.settings, "path") => NormalPath(last.info.settings["path"])
       /\ Has(last.info.stored, "path") <=> Has(last.arg, "path")
       /\ Has(last.arg, "path")
          => /\ NormalPath(last.info.stored["path"])
             /\ ~NormalPath(last.arg["path"])
                => StripsTo(last.arg["path"], Tail(last.info.stored["path"]))
             /\ NormalPath(last.arg["path"]) => last.info.stored = last.arg
             /\ last.arg["id"] = BASE => last.info.settings = last.info.stored
       /\ ~Has(last.arg, "path") => last.info.stored = last.arg

(* A stored path without its leading slash and with two trailing ones,     *)
(* returned and stored in normal form.                                     *)
C38_Witness ==
    /\ last.op = "read"
    /\ Has(last.arg, "path") /\ last.arg["id"] = BASE
    /\ last.arg["path"] = <<"b", "c", "/", "/">>
    /\ last.info.settings["path"] = <<"/", "b", "c">>
    /\ last.info.stored["path"] = <<"/", "b", "c">>

(***************************************************************************)
(* Apps whose topology is none or cannot be told.                          *)
(***************************************************************************)
Unchecked == {"", "?"}

(* The lifecycle script of the call was invoked. *)
Invoked(name) ==
    \E e \in Events : last.ev[e][1] = "script" /\ last.ev[e][2] = name

(* The supplied location is one that another instance has registered. *)
HeldByAnother(location, ignore_app) ==
    \E e \in app_map(pre) :
        /\ e.id # ignore_app
        /\ e.domain = location.domain
        /\ e.path = location.path

(* C39: for an app whose requirement is none or ambiguous, install and     *)
(* change_url are never refused for the location or for the domain, and    *)
(* the script is invoked unless another check refused the call.            *)
C39_UncheckedTopologyNeverRefused ==
    /\ (last.op = "install"
        /\ _guess_webapp_path_requirement(Packages[last.arg.src]) \in Unchecked)
       => /\ last.err \notin LocationTaken \cup {"domain_unknown"}
          /\ last.err \notin {"app_already_installed",
                              "app_action_cannot_be_ran_because_required_services_down"}
             => Invoked("install")
    /\ (last.op = "change_url"
        /\ last.id \in DOMAIN pre.apps
        /\ _guess_webapp_path_requirement(Packages[pre.apps[last.id].files]) \in Unchecked)
       => /\ last.err \notin LocationTaken \cup {"domain_unknown"}
          /\ last.err \notin {"app_change_url_no_script",
                              "app_change_url_identical_domains", "normalize_exception"}
             => Invoked("change_url")

(* An install of such an app at the location of another instance, on which *)
(* the install script ran.                                                 *)
C39_Witness ==
    /\ last.op = "install"
    /\ last.arg.src = "twopaths"
    /\ HeldByAnother(last.arg.answers, NOBODY)
    /\ Invoked("install")
    /\ last.err = "ok"

(* A move of such an app onto the location of another instance. *)
C39_MoveOntoAnother ==
    /\ last.op = "change_url"
    /\ last.id \in DOMAIN pre.apps
    /\ _guess_webapp_path_requirement(Packages[pre.apps[last.id].files]) \in Unchecked
    /\ HeldByAnother(last.arg.target, last.id)
    /\ Invoked("change_url")
    /\ last.err = "ok"
    /\ apps[last.id].settings["path"] = last.arg.target.path

(* The record a caller's creation step writes: its initial settings and    *)
(* the files of its package.                                               *)
FreshRecord(caller) ==
    LET c == installing[caller]
    IN [settings |-> [id |-> c.app_instance_name,
                      install_time |-> now,
                      current_revision |-> Packages[c.src].manifest.remote.revision],
        files |-> c.src]

(* Two callers that listed the same installed apps for the same package id. *)
Raced(p, q) ==
    /\ p # q
    /\ p \in InFlight
    /\ q \in InFlight
    /\ installing[p].seen = installing[q].seen
    /\ Packages[installing[p].src].manifest.id = Packages[installing[q].src].manifest.id

(* C40: no lock protects the allocation of instance ids.  Two install      *)
(* calls for the same package id that computed their instance number from  *)
(* the same installed apps hold the same instance id; and when a call      *)
(* creates its record under an id that already has a record, nothing of    *)
(* the record that was there survives: the record is the later call's.     *)
C40_RacingInstallsShareOneRecord ==
    /\ \A p, q \in Callers :
          Raced(p, q) =>
             installing[p].app_instance_name = installing[q].app_instance_name
    /\ (last.op = "install_record" /\ last.id \in DOMAIN pre.apps) =>
          /\ last.id \in DOMAIN apps
          /\ apps[last.id] = FreshRecord(last.arg)

(* Both callers computed their number before either created its record,    *)
(* the earlier caller created it, and the later caller's creation has just *)
(* replaced it.                                                            *)
C40_Witness ==
    \E p, q \in Callers :
       /\ Raced(p, q)
       /\ last.op = "install_record"
       /\ last.arg = p
       /\ installing[p].pc = "recorded"
       /\ installing[q].pc = "recorded"
       /\ installing[q].app_instance_name = last.id
       /\ last.id \notin installing[p].seen
       /\ last.id \notin installing[q].seen
       /\ last.id \in DOMAIN pre.apps
       /\ pre.apps[last.id] = FreshRecord(q)
       /\ apps[last.id] = FreshRecord(p)
       /\ apps[last.id] # pre.apps[last.id]

(* Installs and removals, of every package at every location. *)
NextInstall == \/ Install(InstallSources, Answers)
               \/ Remove
               \/ Return

SpecInstall == Init /\ [][NextInstall]_vars

(* Upgrades of instances of the versioned package. *)
NextUpgrade == \/ Install({"v1"}, {EmptyDict})
               \/ Upgrade(BatchLists, UpgradeFiles)
               \/ Return

SpecUpgrade == Init /\ [][NextUpgrade]_vars

(* One instance of a package, and gets, sets and deletes of its settings. *)
NextSettings == \/ Install({"solo"}, {[domain |-> <<"d1">>, path |-> P_B]})
                \/ Setting(SettingKeys, SettingActs)
                \/ Return

SpecSettings == Init /\ [][NextSettings]_vars

(* Web locations: installs, removals, moves and settings, with upgrade     *)
(* calls that name an instance that is not installed.                      *)
NextWeb == \/ Install({"web", "solo", "dotted", "fmt2", "needy"}, Answers)
           \/ Remove
           \/ ChangeUrl
           \/ Setting({[key |-> "path", value |-> <<"/", "b", "/">>]}, {"get", "set"})
           \/ Upgrade(GhostLists, {"none"})
           \/ Return

SpecWeb == Init /\ [][NextWeb]_vars

(* The four operations that run a lifecycle script, on a web app. *)
NextLifecycle == \/ Install({"web"}, {[domain |-> D1, path |-> P_B]})
                 \/ Upgrade(SingleLists, {"none", "web"})
                 \/ Remove
                 \/ ChangeUrlTo({[domain |-> D1, path |-> P_B],
                                 [domain |-> D1, path |-> P_BC]})
                 \/ Return

SpecLifecycle == Init /\ [][NextLifecycle]_vars

(* Calls that allocate workdirs and leave some behind, as time passes. *)
NextSweep == \/ Install({"solo"}, {EmptyDict})
             \/ Remove
             \/ Wait
             \/ Return

SpecSweep == Init /\ [][NextSweep]_vars

(* Locations booked by installs, by later registrations and by moves. *)
BookedLocations == {[domain |-> D1, path |-> P_B],
                    [domain |-> D1, path |-> P_BC],
                    [domain |-> D1, path |-> ROOT],
                    [domain |-> D1, path |-> <<"c", "/">>]}

NextRegistry == \/ Install({"web", "full"}, BookedLocations)
                \/ RegisterUrl(BookedLocations)
                \/ ChangeUrlTo(BookedLocations)
                \/ Remove
                \/ Return

SpecRegistry == Init /\ [][NextRegistry]_vars

(* A web app next to apps whose topology cannot be told from their        *)
(* questions, installed at and moved to the same locations.                *)
SharedLocations == {[domain |-> D1, path |-> P_B],
                    [domain |-> <<"nope">>, path |-> P_B]}

NextTopology == \/ Install({"web", "twopaths", "bare", "v1"}, SharedLocations)
                \/ ChangeUrlTo({[domain |-> D1, path |-> P_B],
                                [domain |-> D1, path |-> <<"/", "c">>]})
                \/ Return

SpecTopology == Init /\ [][NextTopology]_vars

(* Web apps and full-domain apps, installed at, moved to and removed from  *)
(* locations that are equal, nested, siblings or apart.                    *)
NextLocations == \/ Install({"web", "full"}, WebAnswers)
                 \/ Remove
                 \/ ChangeUrl
                 \/ Return

SpecLocations == Init /\ [][NextLocations]_vars

(* Two callers inside app_install of the same package id at once. *)
NextRace == \/ InstallNumber({"v1", "v2"})
            \/ InstallRecord
            \/ InstallScript({FALSE})

SpecRace == Init /\ [][NextRace]_vars

(* Reads of records with every stored path. *)
NextReads == ReadRecord \/ Return

SpecReads == Init /\ [][NextReads]_vars

(* The functions that name instances, asked about names and siblings. *)
NextNames == \/ ParseGenerated
             \/ ParseOdd
             \/ NextNumber
             \/ Return

SpecNames == Init /\ [][NextNames]_vars

(* The Version Classifier, asked about versions and catalog entries. *)
NextVersions == \/ Classify
                \/ Upgradable
                \/ Return

SpecVersions == Init /\ [][NextVersions]_vars

(* Upgrades of instances of the package without the marker, from a file or *)
(* from the catalog, and the classification of versions.                   *)
NextLegacy == \/ Install({"old"}, {EmptyDict})
              \/ Upgrade(BatchLists, {"none", "old"})
              \/ Classify
              \/ Return

SpecLegacy == Init /\ [][NextLegacy]_vars

====
